---- MODULE Spec2Model ----
(***************************************************************************)
(* Candidate scoring and confirmation pipeline of the Snowflake AI         *)
(* readiness agent (scripts/snowflake_full_analysis.py and                 *)
(* scripts/snowflake_ai_readiness_metadata.py).                            *)
(*                                                                         *)
(* Number representation.  Percentages, average lengths and 0-5 scores are *)
(* Python floats with at most two decimals; they are held here as integers *)
(* in hundredths (50.01 % is 5001, a score of 3.5 is 350).  Declared and   *)
(* measured maximum lengths are plain integers.  NONE stands for Python's  *)
(* None and for a dict key that is not there.                              *)
(***************************************************************************)
EXTENDS Integers, Sequences, FiniteSets, TLC

VARIABLES
    arg,                 \* input of the pure function under check (candidate, profile)
    ret,                 \* what the function calls returned
    pc,                  \* run_agent: "idle", or the stage that comes next
    start_stage,         \* run_agent: the --start-stage of the run ("" for none)
    columns,             \* run_agent: the column rows of stage 1
    all_candidates,      \* the candidate list, in order
    top_candidates,      \* indices into all_candidates (the same dict objects)
    existing_candidates, \* run_agent: candidates of earlier runs (append mode)
    cache,               \* analysis cache: cache key -> entry
    text_rich_columns,   \* run_agent: rows of find_text_rich_columns (stage 3)
    text_profiles,       \* run_agent: text profiles of stage 4
    disk,                \* the files under OUTPUT_DIR that are read back
    FORCE_REANALYSIS,    \* configuration, fixed at start-up
    RUN_MODE             \* configuration, fixed at start-up

vars == <<arg, ret, pc, start_stage, columns, all_candidates, top_candidates,
          existing_candidates, cache, text_rich_columns, text_profiles, disk,
          FORCE_REANALYSIS, RUN_MODE>>

funvars == <<arg, ret>>
runvars == <<pc, start_stage, columns, existing_candidates, text_rich_columns,
             text_profiles, disk>>
confvars == <<FORCE_REANALYSIS, RUN_MODE>>

NONE == -1

Truthy(x) == x # NONE /\ x # 0

----------------------------------------------------------------------------
(* Configuration defaults, in hundredths *)

CONFIRM_MIN_DATA_READINESS == 35 * 10
CONFIRM_MAX_SPARSITY == 50 * 100
CONFIRM_MIN_AVG_TEXT_LENGTH == 30 * 100

FeatLLM == "Cortex LLM"
FeatSearch == "Cortex Search / RAG"
FeatExtract == "Cortex Extract"
FeatML == "Cortex ML (Forecasting/Anomaly)"

Features == {FeatLLM, FeatSearch, FeatExtract, FeatML}

----------------------------------------------------------------------------
(* Records *)

\* candidate['statistics']: the key may be missing ("absent"), the dict may be
\* empty ("empty"), or it carries some of the fields below ("dict").
Statistics(kind, null_percentage, avg_length, max_length, has_comment, is_nullable) ==
    [kind |-> kind, null_percentage |-> null_percentage, avg_length |-> avg_length,
     max_length |-> max_length, has_comment |-> has_comment, is_nullable |-> is_nullable]

NoStatistics == Statistics("absent", NONE, NONE, NONE, FALSE, "absent")
EmptyStatistics == Statistics("empty", NONE, NONE, NONE, FALSE, "absent")

\* candidate['scores']: missing, or the four dimension scores (hundredths)
Scores(bp, dr, mq, gr) ==
    [present |-> TRUE, business_potential |-> bp, data_readiness |-> dr,
     metadata_quality |-> mq, governance_risk |-> gr]

NoScores ==
    [present |-> FALSE, business_potential |-> NONE, data_readiness |-> NONE,
     metadata_quality |-> NONE, governance_risk |-> NONE]

\* sum(cand['scores'].values())
SumScores(s) ==
    s.business_potential + s.data_readiness + s.metadata_quality + s.governance_risk

\* The profile dict of run_deep_profiling as is_confirmed_candidate reads it:
\* sparsity.null_percentage, content_type.avg_length,
\* content_type.is_natural_language, json_structure.is_valid_structure.
\* The two flags are "None", "True" or "False".
Profile(sp, ct, nl, js) ==
    [present |-> TRUE, sparsity_null_percentage |-> sp, content_avg_length |-> ct,
     is_natural_language |-> nl, is_valid_structure |-> js]

NoProfile ==
    [present |-> FALSE, sparsity_null_percentage |-> NONE, content_avg_length |-> NONE,
     is_natural_language |-> "None", is_valid_structure |-> "None"]

Reason(text, value) == [text |-> text, value |-> value]

----------------------------------------------------------------------------
(* is_confirmed_candidate *)

Fail(v, reason) == [is_confirmed |-> FALSE, reasons |-> Append(v.reasons, reason)]
Note(v, reason) == [is_confirmed |-> v.is_confirmed, reasons |-> Append(v.reasons, reason)]

\* stats.get('null_percentage') or stats.get('sparsity', {}).get('null_percentage', 100)
ConfirmNullPct(candidate, profile) ==
    LET top == IF candidate.statistics.kind = "dict"
               THEN candidate.statistics.null_percentage ELSE NONE
        nested == IF profile.present THEN profile.sparsity_null_percentage ELSE NONE
    IN  IF Truthy(top) THEN top
        ELSE IF nested = NONE THEN 100 * 100 ELSE nested

\* stats.get('avg_length') or stats.get('content_type', {}).get('avg_length', 0)
ConfirmAvgLen(candidate, profile) ==
    LET top == IF candidate.statistics.kind = "dict"
               THEN candidate.statistics.avg_length ELSE NONE
        nested == IF profile.present THEN profile.content_avg_length ELSE NONE
    IN  IF Truthy(top) THEN top
        ELSE IF nested = NONE THEN 0 ELSE nested

\* candidate.get('scores', {}).get('data_readiness', 0)
ConfirmReadiness(candidate) ==
    IF candidate.scores.present /\ candidate.scores.data_readiness # NONE
    THEN candidate.scores.data_readiness ELSE 0

CheckSparsity(v, candidate, profile) ==
    LET null_pct == ConfirmNullPct(candidate, profile)
    IN  IF null_pct > CONFIRM_MAX_SPARSITY
        THEN Fail(v, Reason("High sparsity", null_pct))
        ELSE Note(v, Reason("Good completeness", 100 * 100 - null_pct))

\* a length check that gives its reason only when it fails
CheckAvgLengthFailOnly(v, candidate, profile) ==
    LET avg_len == ConfirmAvgLen(candidate, profile)
    IN  IF Truthy(avg_len) /\ avg_len < CONFIRM_MIN_AVG_TEXT_LENGTH
        THEN Fail(v, Reason("Short content", avg_len))
        ELSE v

CheckAvgLength(v, candidate, profile) ==
    LET avg_len == ConfirmAvgLen(candidate, profile)
    IN  IF Truthy(avg_len) /\ avg_len < CONFIRM_MIN_AVG_TEXT_LENGTH
        THEN Fail(v, Reason("Short content", avg_len))
        ELSE IF Truthy(avg_len)
        THEN Note(v, Reason("Substantial content", avg_len))
        ELSE v

CheckNaturalLanguage(v, profile) ==
    LET is_nl == IF profile.present THEN profile.is_natural_language ELSE "None"
    IN  IF is_nl = "False"
        THEN Fail(v, Reason("Content appears to be codes/structured, not natural language", NONE))
        ELSE IF is_nl = "True"
        THEN Note(v, Reason("Natural language content detected", NONE))
        ELSE v

CheckJsonStructure(v, profile) ==
    LET json_valid == IF profile.present THEN profile.is_valid_structure ELSE "None"
    IN  IF json_valid = "False"
        THEN Fail(v, Reason("Invalid JSON structure detected", NONE))
        ELSE IF json_valid = "True"
        THEN Note(v, Reason("Valid JSON structure confirmed", NONE))
        ELSE v

CheckReadiness(v, candidate) ==
    LET data_readiness == ConfirmReadiness(candidate)
    IN  IF data_readiness < CONFIRM_MIN_DATA_READINESS
        THEN Fail(v, Reason("Low data readiness score", data_readiness))
        ELSE Note(v, Reason("Good data readiness", data_readiness))

is_confirmed_candidate(candidate, profile) ==
    LET v0 == [is_confirmed |-> TRUE, reasons |-> <<>>]
        v1 == CheckSparsity(v0, candidate, profile)
        v2 == IF candidate.ai_feature \in {FeatLLM, FeatSearch}
              THEN CheckNaturalLanguage(CheckAvgLength(v1, candidate, profile), profile)
              ELSE v1
        v3 == IF candidate.ai_feature = FeatExtract
              THEN CheckJsonStructure(v2, profile)
              ELSE v2
    IN  CheckReadiness(v3, candidate)

----------------------------------------------------------------------------
(* Data-readiness scorers.  Points are accumulated in thousandths so that   *)
(* round(score, 2) has something to do; the result is in hundredths.        *)

\* round(x, 2) of Python 3: to the nearest hundredth, ties to the even one
Round2(thousandths) ==
    LET q == thousandths \div 10
        r == thousandths % 10
    IN  IF r > 5 \/ (r = 5 /\ q % 2 = 1) THEN q + 1 ELSE q

Min(a, b) == IF a <= b THEN a ELSE b

\* Component 1 of enhance_data_readiness_score
SampleNullPoints(statistics) ==
    LET null_pct == IF statistics.null_percentage = NONE
                    THEN 100 * 100 ELSE statistics.null_percentage
    IN  IF null_pct <= 10 * 100 THEN 2000
        ELSE IF null_pct <= 30 * 100 THEN 1500
        ELSE IF null_pct <= 50 * 100 THEN 1000
        ELSE IF null_pct <= 70 * 100 THEN 500
        ELSE 0

\* length points with the 0.5 step left out
SampleLengthPointsNoShortStep(statistics) ==
    LET avg_length == statistics.avg_length
    IN  IF avg_length = NONE THEN 0
        ELSE IF avg_length >= 200 * 100 THEN 2000
        ELSE IF avg_length >= 100 * 100 THEN 1500
        ELSE IF avg_length >= 50 * 100 THEN 1000
        ELSE 0

\* Component 2 of enhance_data_readiness_score
SampleLengthPoints(statistics) ==
    LET avg_length == statistics.avg_length
    IN  IF avg_length = NONE THEN 0
        ELSE IF avg_length >= 200 * 100 THEN 2000
        ELSE IF avg_length >= 100 * 100 THEN 1500
        ELSE IF avg_length >= 50 * 100 THEN 1000
        ELSE IF avg_length > 0 THEN 500
        ELSE 0

\* Component 3 of enhance_data_readiness_score: measured against declared size.
\* efficiency = (max_length / defined_length) * 100, compared without division.
SampleEfficiencyPoints(candidate, statistics) ==
    LET max_length == statistics.max_length
        defined_length == candidate.max_length
    IN  IF max_length # NONE /\ Truthy(defined_length) /\ defined_length > 0
        THEN IF max_length * 100 > 50 * defined_length THEN 1000
             ELSE IF max_length * 100 >= 25 * defined_length THEN 500
             ELSE 0
        ELSE 0

enhance_data_readiness_score(candidate, statistics) ==
    IF statistics.kind # "dict" THEN 100
    ELSE Round2(SampleNullPoints(statistics) + SampleLengthPoints(statistics)
                + SampleEfficiencyPoints(candidate, statistics))

\* null-rate points with the steps taken below, not at, each threshold
MetadataNullPointsStrict(column_stats) ==
    LET null_pct == IF column_stats.null_percentage = NONE
                    THEN 50 * 100 ELSE column_stats.null_percentage
    IN  IF null_pct < 10 * 100 THEN 2000
        ELSE IF null_pct < 30 * 100 THEN 1500
        ELSE IF null_pct < 50 * 100 THEN 1000
        ELSE IF null_pct < 70 * 100 THEN 500
        ELSE 0

\* Component 1 of enhance_data_readiness_score_metadata
MetadataNullPoints(column_stats) ==
    LET null_pct == IF column_stats.null_percentage = NONE
                    THEN 50 * 100 ELSE column_stats.null_percentage
    IN  IF null_pct <= 10 * 100 THEN 2000
        ELSE IF null_pct <= 30 * 100 THEN 1500
        ELSE IF null_pct <= 50 * 100 THEN 1000
        ELSE IF null_pct <= 70 * 100 THEN 500
        ELSE 0

\* Component 2 of enhance_data_readiness_score_metadata
MetadataLengthPoints(column_stats) ==
    LET avg_length == column_stats.avg_length
    IN  IF avg_length = NONE THEN 0
        ELSE IF avg_length >= 200 * 100 THEN 2000
        ELSE IF avg_length >= 100 * 100 THEN 1500
        ELSE IF avg_length >= 50 * 100 THEN 1000
        ELSE IF avg_length > 0 THEN 500
        ELSE 0

\* Component 3 of enhance_data_readiness_score_metadata: comment and NOT NULL
MetadataQualityPoints(column_stats) ==
    LET has_comment == column_stats.has_comment
        is_not_nullable == column_stats.is_nullable = "NO"
    IN  IF has_comment /\ is_not_nullable THEN 1000
        ELSE IF has_comment \/ is_not_nullable THEN 500
        ELSE 0

enhance_data_readiness_score_metadata(candidate, column_stats) ==
    IF column_stats.kind # "dict" THEN 100
    ELSE Round2(Min(MetadataNullPoints(column_stats) + MetadataLengthPoints(column_stats)
                    + MetadataQualityPoints(column_stats), 5000))

----------------------------------------------------------------------------
(* Candidates *)

\* A candidate dict (database and schema are the same for all candidates and
\* left out).  column = "" means the dict has no 'column' key (table-level
\* candidates); max_length = NONE means no such key or None; comment says
\* whether the comment is a non-empty string; evidence is numeric_columns or
\* text_columns; total_score = NONE means no 'total_score' key; is_confirmed
\* is "absent" until stage 5B has set the flag.
Candidate(table, column, ai_feature, data_type, max_length, comment) ==
    [table |-> table, column |-> column, ai_feature |-> ai_feature,
     data_type |-> data_type, max_length |-> max_length, comment |-> comment,
     evidence |-> <<>>,
     statistics |-> NoStatistics, sample_size |-> "absent",
     scores |-> NoScores, total_score |-> NONE,
     is_confirmed |-> "absent", confirmation_reasons |-> <<>>]

----------------------------------------------------------------------------
(* Specification of the confirmation rule as a function of its inputs *)

Tri == {"None", "True", "False"}

ConfirmNullGrid == {NONE, 0, 1, 1000, 5000, 5001, 10000}
ConfirmLenGrid == {NONE, 0, 1000, 2999, 3000, 25000}
ConfirmReadinessGrid == {NONE, 0, 300, 350, 400, 500}

ConfirmStatistics ==
    {NoStatistics} \cup
    {Statistics("dict", n, a, NONE, FALSE, "YES") : n \in ConfirmNullGrid, a \in ConfirmLenGrid}

ConfirmScores ==
    {IF d = NONE THEN NoScores ELSE Scores(400, d, 200, 200) : d \in ConfirmReadinessGrid}

ConfirmProfiles ==
    {NoProfile} \cup
    {Profile(sp, ct, nl, js) : sp \in {NONE, 0, 6000}, ct \in {NONE, 2000, 5000},
                               nl \in Tri, js \in Tri}

ConfirmCandidates ==
    {[Candidate("ORDERS", "DESCRIPTION", f, "VARCHAR", NONE, FALSE) EXCEPT !.statistics = st, !.scores = sc,
         !.total_score = IF sc.present THEN SumScores(sc) ELSE NONE] :
        f \in Features, st \in ConfirmStatistics, sc \in ConfirmScores}

NoVerdict == [is_confirmed |-> FALSE, reasons |-> <<>>]
RetNone == [called |-> {}, confirm |-> NoVerdict, sample |-> NONE, metadata |-> NONE]

NoCache == [k \in {} |-> NONE]

\* no file written yet under OUTPUT_DIR
NoDisk ==
    [has_inventory |-> FALSE, inventory |-> <<>>,
     has_candidates |-> FALSE, candidates |-> <<>>,
     has_profiles |-> FALSE, text_profiles |-> <<>>,
     has_cache |-> FALSE, cache |-> NoCache]

\* run_agent is not running and nothing is in memory
NothingRunning ==
    /\ pc = "idle"
    /\ start_stage = ""
    /\ columns = <<>>
    /\ all_candidates = <<>>
    /\ top_candidates = <<>>
    /\ existing_candidates = <<>>
    /\ cache = NoCache
    /\ text_rich_columns = <<>>
    /\ text_profiles = <<>>
    /\ disk = NoDisk

InitConfirm ==
    /\ arg \in {[candidate |-> c, profile |-> p] : c \in ConfirmCandidates, p \in ConfirmProfiles}
    /\ ret = RetNone
    /\ NothingRunning
    /\ FORCE_REANALYSIS = FALSE
    /\ RUN_MODE = "fresh"

\* is_confirmed, reasons = is_confirmed_candidate(candidate, profile)
CallConfirm ==
    /\ "confirm" \notin ret.called
    /\ ret' = [ret EXCEPT !.called = @ \cup {"confirm"},
                          !.confirm = is_confirmed_candidate(arg.candidate, arg.profile)]
    /\ UNCHANGED <<arg, runvars, all_candidates, top_candidates, cache, confvars>>

NextConfirm == CallConfirm

SpecConfirm == InitConfirm /\ [][NextConfirm]_vars

----------------------------------------------------------------------------
(* Specification of the two data-readiness scorers as functions of their     *)
(* inputs                                                                    *)

ReadinessNullGrid == {NONE, 0, 500, 1000, 1001, 2000, 3000, 3001, 5000, 5001, 7000, 7001, 10000}
ReadinessLenGrid == {NONE, 0, 1, 1000, 4999, 5000, 9999, 10000, 19999, 20000, 25000}
MeasuredLenGrid == {NONE, 0, 24, 25, 50, 51, 100}
DeclaredLenGrid == {NONE, 0, 100}

ReadinessStatistics ==
    {EmptyStatistics} \cup
    {Statistics("dict", n, a, m, hc, nu) :
        n \in ReadinessNullGrid, a \in ReadinessLenGrid, m \in MeasuredLenGrid,
        hc \in BOOLEAN, nu \in {"absent", "YES", "NO"}}

InitReadiness ==
    /\ arg \in {[candidate |-> [Candidate("ORDERS", "DESCRIPTION", FeatLLM, "VARCHAR", d, FALSE)
                                   EXCEPT !.statistics = st],
                 profile |-> NoProfile] : d \in DeclaredLenGrid, st \in ReadinessStatistics}
    /\ ret = RetNone
    /\ NothingRunning
    /\ FORCE_REANALYSIS = FALSE
    /\ RUN_MODE = "fresh"

CallSampleScorer ==
    /\ "sample" \notin ret.called
    /\ ret' = [ret EXCEPT !.called = @ \cup {"sample"},
                          !.sample = enhance_data_readiness_score(arg.candidate,
                                                                  arg.candidate.statistics)]
    /\ UNCHANGED <<arg, runvars, all_candidates, top_candidates, cache, confvars>>

CallMetadataScorer ==
    /\ "metadata" \notin ret.called
    /\ ret' = [ret EXCEPT !.called = @ \cup {"metadata"},
                          !.metadata = enhance_data_readiness_score_metadata(arg.candidate,
                                                                  arg.candidate.statistics)]
    /\ UNCHANGED <<arg, runvars, all_candidates, top_candidates, cache, confvars>>

NextReadiness == CallSampleScorer \/ CallMetadataScorer

SpecReadiness == InitReadiness /\ [][NextReadiness]_vars

----------------------------------------------------------------------------
(* Strings.  Type and column names are TLA+ strings; Spell gives their        *)
(* characters so that Python's substring test and upper() can be computed.   *)

Spell(s) ==
    CASE s = "" -> <<>>
      [] s = "VARCHAR" -> <<"V", "A", "R", "C", "H", "A", "R">>
      [] s = "TEXT" -> <<"T", "E", "X", "T">>
      [] s = "STRING" -> <<"S", "T", "R", "I", "N", "G">>
      [] s = "CHAR" -> <<"C", "H", "A", "R">>
      [] s = "VARIANT" -> <<"V", "A", "R", "I", "A", "N", "T">>
      [] s = "OBJECT" -> <<"O", "B", "J", "E", "C", "T">>
      [] s = "ARRAY" -> <<"A", "R", "R", "A", "Y">>
      [] s = "NUMBER" -> <<"N", "U", "M", "B", "E", "R">>
      [] s = "INT" -> <<"I", "N", "T">>
      [] s = "FLOAT" -> <<"F", "L", "O", "A", "T">>
      [] s = "DOUBLE" -> <<"D", "O", "U", "B", "L", "E">>
      [] s = "DECIMAL" -> <<"D", "E", "C", "I", "M", "A", "L">>
      [] s = "INTEGER" -> <<"I", "N", "T", "E", "G", "E", "R">>
      [] s = "TIMESTAMP" -> <<"T", "I", "M", "E", "S", "T", "A", "M", "P">>
      [] s = "DATE" -> <<"D", "A", "T", "E">>
      [] s = "TIMESTAMP_NTZ" -> <<"T", "I", "M", "E", "S", "T", "A", "M", "P", "_", "N", "T", "Z">>
      [] s = "variant" -> <<"v", "a", "r", "i", "a", "n", "t">>
      [] s = "DESCRIPTION" -> <<"D", "E", "S", "C", "R", "I", "P", "T", "I", "O", "N">>
      [] s = "CONTENT" -> <<"C", "O", "N", "T", "E", "N", "T">>
      [] s = "MESSAGE" -> <<"M", "E", "S", "S", "A", "G", "E">>
      [] s = "NOTE" -> <<"N", "O", "T", "E">>
      [] s = "SUMMARY" -> <<"S", "U", "M", "M", "A", "R", "Y">>
      [] s = "DETAIL" -> <<"D", "E", "T", "A", "I", "L">>
      [] s = "BODY" -> <<"B", "O", "D", "Y">>
      [] s = "FEEDBACK" -> <<"F", "E", "E", "D", "B", "A", "C", "K">>
      [] s = "REVIEW" -> <<"R", "E", "V", "I", "E", "W">>
      [] s = "ABSTRACT" -> <<"A", "B", "S", "T", "R", "A", "C", "T">>
      [] s = "BIO" -> <<"B", "I", "O">>
      [] s = "NARRATIVE" -> <<"N", "A", "R", "R", "A", "T", "I", "V", "E">>
      [] s = "TITLE" -> <<"T", "I", "T", "L", "E">>
      [] s = "SUBJECT" -> <<"S", "U", "B", "J", "E", "C", "T">>
      [] s = "COMMENT" -> <<"C", "O", "M", "M", "E", "N", "T">>
      [] s = "EMAIL" -> <<"E", "M", "A", "I", "L">>
      [] s = "SSN" -> <<"S", "S", "N">>
      [] s = "PHONE" -> <<"P", "H", "O", "N", "E">>
      [] s = "ADDRESS" -> <<"A", "D", "D", "R", "E", "S", "S">>
      [] s = "NAME" -> <<"N", "A", "M", "E">>
      [] s = "DOB" -> <<"D", "O", "B">>
      [] s = "BIRTH" -> <<"B", "I", "R", "T", "H">>
      [] s = "PASSWORD" -> <<"P", "A", "S", "S", "W", "O", "R", "D">>
      [] s = "SECRET" -> <<"S", "E", "C", "R", "E", "T">>
      [] s = "NOTES" -> <<"N", "O", "T", "E", "S">>
      [] s = "PAYLOAD" -> <<"P", "A", "Y", "L", "O", "A", "D">>
      [] s = "ORDER_DATE" -> <<"O", "R", "D", "E", "R", "_", "D", "A", "T", "E">>
      [] s = "VARCHAR(40)" -> <<"V", "A", "R", "C", "H", "A", "R", "(", "4", "0", ")">>
      [] s = "AMOUNT" -> <<"A", "M", "O", "U", "N", "T">>
      [] s = "ORDERS" -> <<"O", "R", "D", "E", "R", "S">>
      [] s = "CONTACT_EMAIL" -> <<"C", "O", "N", "T", "A", "C", "T", "_", "E", "M", "A", "I", "L">>
      [] s = "TS" -> <<"T", "S">>
      [] s = "T1" -> <<"T", "1">>
      [] s = "T2" -> <<"T", "2">>
      [] s = "X" -> <<"X">>
      [] s = "N1" -> <<"N", "1">>
      [] s = "N2" -> <<"N", "2">>
      [] s = "N3" -> <<"N", "3">>
      [] s = "N4" -> <<"N", "4">>
      [] s = "N5" -> <<"N", "5">>
      [] s = "N6" -> <<"N", "6">>
      [] s = "BINARY" -> <<"B", "I", "N", "A", "R", "Y">>
      [] s = "VARBINARY" -> <<"V", "A", "R", "B", "I", "N", "A", "R", "Y">>
      [] s = "GEOGRAPHY" -> <<"G", "E", "O", "G", "R", "A", "P", "H", "Y">>
      [] s = "GEOMETRY" -> <<"G", "E", "O", "M", "E", "T", "R", "Y">>
      [] s = "BINARY(8)" -> <<"B", "I", "N", "A", "R", "Y", "(", "8", ")">>
      [] s = "PRIMARY KEY" -> <<"P", "R", "I", "M", "A", "R", "Y", " ", "K", "E", "Y">>
      [] s = "FOREIGN KEY" -> <<"F", "O", "R", "E", "I", "G", "N", " ", "K", "E", "Y">>
      [] s = "UNIQUE" -> <<"U", "N", "I", "Q", "U", "E">>
      [] s = "unique" -> <<"u", "n", "i", "q", "u", "e">>
      [] s = "  " -> <<" ", " ">>
      [] s = "Orders" -> <<"O", "r", "d", "e", "r", "s">>
      [] s = "LINEAR(ID)" -> <<"L", "I", "N", "E", "A", "R", "(", "I", "D", ")">>
      [] s = "float" -> <<"f", "l", "o", "a", "t">>
      [] s = "date" -> <<"d", "a", "t", "e">>
      [] s = "varchar" -> <<"v", "a", "r", "c", "h", "a", "r">>
      [] s = "variant" -> <<"v", "a", "r", "i", "a", "n", "t">>
      [] s = "notes" -> <<"n", "o", "t", "e", "s">>
      [] s = "VARCHAR(1000)" -> <<"V", "A", "R", "C", "H", "A", "R", "(", "1", "0", "0", "0", ")">>
      [] s = "SELECT" -> <<"S", "E", "L", "E", "C", "T">>
      [] s = "SELECT 1" -> <<"S", "E", "L", "E", "C", "T", " ", "1">>
      [] s = " select 1 " -> <<" ", "s", "e", "l", "e", "c", "t", " ", "1", " ">>
      [] s = "SELECTED" -> <<"S", "E", "L", "E", "C", "T", "E", "D">>
      [] s = "ALTER SESSION" -> <<"A", "L", "T", "E", "R", " ", "S", "E", "S", "S", "I", "O", "N">>
      [] s = "DROP TABLE T" -> <<"D", "R", "O", "P", " ", "T", "A", "B", "L", "E", " ", "T">>
      [] s = "WITH X" -> <<"W", "I", "T", "H", " ", "X">>
      [] s = "SELECT SAMPLE" -> <<"S", "E", "L", "E", "C", "T", " ", "S", "A", "M", "P", "L", "E">>
      [] s = "1" -> <<"1">>
      [] s = "2" -> <<"2">>
      [] s = "2A" -> <<"2", "A">>
      [] s = "2B" -> <<"2", "B">>
      [] s = "2C" -> <<"2", "C">>
      [] s = "2D" -> <<"2", "D">>
      [] s = "2E" -> <<"2", "E">>
      [] s = "2F" -> <<"2", "F">>
      [] s = "3" -> <<"3">>
      [] s = "4" -> <<"4">>
      [] s = "5" -> <<"5">>
      [] s = "5B" -> <<"5", "B">>
      [] s = "6" -> <<"6">>
      [] s = "2a" -> <<"2", "a">>
      [] s = "2b" -> <<"2", "b">>
      [] s = "2c" -> <<"2", "c">>
      [] s = "2d" -> <<"2", "d">>
      [] s = "2e" -> <<"2", "e">>
      [] s = "2f" -> <<"2", "f">>
      [] s = "5b" -> <<"5", "b">>
      [] s = "7" -> <<"7">>

LowerCase == <<"a", "b", "c", "d", "e", "f", "g", "h", "i", "j", "k", "l", "m", "n", "o", "p", "q", "r", "s", "t", "u", "v", "w", "x", "y", "z">>
UpperCase == <<"A", "B", "C", "D", "E", "F", "G", "H", "I", "J", "K", "L", "M", "N", "O", "P", "Q", "R", "S", "T", "U", "V", "W", "X", "Y", "Z">>

\* str.upper(), on the characters
UpperChar(ch) ==
    IF \E i \in DOMAIN LowerCase : LowerCase[i] = ch
    THEN UpperCase[CHOOSE i \in DOMAIN LowerCase : LowerCase[i] = ch]
    ELSE ch

Upper(letters) == [i \in DOMAIN letters |-> UpperChar(letters[i])]

\* Python's  needle in haystack  for strings, on the characters
IsSubstring(needle, haystack) ==
    \E i \in 1..(Len(haystack) - Len(needle) + 1) :
        \A j \in 1..Len(needle) : haystack[i + j - 1] = needle[j]

\* any(t in s.upper() for t in tokens)
UpperContainsAny(s, tokens) ==
    LET upper == Upper(Spell(s))
    IN  \E t \in tokens : IsSubstring(Spell(t), upper)

----------------------------------------------------------------------------
(* Column metadata rows and the four classifiers *)

\* One row of discover_columns: (db, schema, table, col_name, ordinal,
\* data_type, max_len, num_prec, num_scale, nullable, comment).  csv = TRUE
\* marks a row rebuilt from full_inventory.csv by load_intermediate_state:
\* its max_len is then the text of the number ('' for None).
ColumnRow(table, column_name, data_type, max_len, is_nullable, comment) ==
    [table |-> table, column_name |-> column_name, data_type |-> data_type,
     max_len |-> max_len, is_nullable |-> is_nullable, comment |-> comment,
     csv |-> FALSE]

TextIndicators ==
    {"DESCRIPTION", "CONTENT", "MESSAGE", "NOTE", "SUMMARY", "DETAIL", "BODY", "TEXT",
     "COMMENT", "FEEDBACK", "REVIEW", "ABSTRACT", "BIO", "NARRATIVE", "TITLE", "SUBJECT"}

\* order-preserving  [f(x) for x in rows if keep(x)]
FilterMap(rows, keep(_), f(_)) ==
    LET F[i \in 0..Len(rows)] ==
            IF i = 0 THEN <<>>
            ELSE LET before == F[i - 1]
                 IN  IF keep(rows[i]) THEN Append(before, f(rows[i])) ELSE before
    IN  F[Len(rows)]

\* the LLM rule without the test of the declared type
IsLLMColumnAnyType(row) ==
    /\ row.data_type # ""
    /\ \/ Truthy(row.max_len) /\ row.max_len >= 500
       \/ UpperContainsAny(row.column_name, TextIndicators)

IsLLMColumn(row) ==
    /\ row.data_type # ""
    /\ UpperContainsAny(row.data_type, {"VARCHAR", "TEXT", "STRING", "CHAR"})
    /\ \/ Truthy(row.max_len) /\ row.max_len >= 500
       \/ UpperContainsAny(row.column_name, TextIndicators)

LLMCandidate(row) ==
    Candidate(row.table, row.column_name, FeatLLM, row.data_type, row.max_len, row.comment)

identify_llm_candidates(columns_data) == FilterMap(columns_data, IsLLMColumn, LLMCandidate)

\* the end of the candidate's "reason": 'long text' if is_long_text else
\* 'semantic name'
LLMReason(row) ==
    IF Truthy(row.max_len) /\ row.max_len >= 500 THEN "long text" ELSE "semantic name"

IsVariantColumn(row) ==
    /\ row.data_type # ""
    /\ \E t \in {"VARIANT", "OBJECT", "ARRAY"} : Upper(Spell(row.data_type)) = Spell(t)

VariantCandidate(row) ==
    Candidate(row.table, row.column_name, FeatExtract, row.data_type, NONE, row.comment)

identify_variant_candidates(columns_data) ==
    FilterMap(columns_data, IsVariantColumn, VariantCandidate)

\* the keys of a defaultdict filled row by row: tables in order of first row
TablesInOrder(columns_data) ==
    LET F[i \in 0..Len(columns_data)] ==
            IF i = 0 THEN <<>>
            ELSE LET seen == F[i - 1]
                 IN  IF \E j \in 1..Len(seen) : seen[j] = columns_data[i].table
                     THEN seen
                     ELSE Append(seen, columns_data[i].table)
    IN  F[Len(columns_data)]

Take(seq, n) == SubSeq(seq, 1, Min(n, Len(seq)))

IsTimestampColumn(row) ==
    row.data_type # "" /\ UpperContainsAny(row.data_type, {"TIMESTAMP", "DATE"})

IsNumericColumn(row) ==
    /\ row.data_type # ""
    /\ UpperContainsAny(row.data_type, {"NUMBER", "FLOAT", "DECIMAL", "INTEGER", "DOUBLE"})

ColumnName(row) == row.column_name

\* identify_ml_candidates that reports every numeric column
IdentifyMLAllNumeric(columns_data) ==
    LET InTable(t) == SelectSeq(columns_data, LAMBDA r : r.table = t)
        NumCols(t) == FilterMap(InTable(t), IsNumericColumn, ColumnName)
        Flagged(t) ==
            /\ \E i \in 1..Len(InTable(t)) : IsTimestampColumn(InTable(t)[i])
            /\ Len(NumCols(t)) >= 1
        Cand(t) == [Candidate(t, "", FeatML, "", NONE, FALSE) EXCEPT !.evidence = NumCols(t)]
    IN  FilterMap(TablesInOrder(columns_data), Flagged, Cand)

identify_ml_candidates(columns_data) ==
    LET InTable(t) == SelectSeq(columns_data, LAMBDA r : r.table = t)
        NumCols(t) == FilterMap(InTable(t), IsNumericColumn, ColumnName)
        Flagged(t) ==
            /\ \E i \in 1..Len(InTable(t)) : IsTimestampColumn(InTable(t)[i])
            /\ Len(NumCols(t)) >= 1
        Cand(t) == [Candidate(t, "", FeatML, "", NONE, FALSE)
                       EXCEPT !.evidence = Take(NumCols(t), 5)]
    IN  FilterMap(TablesInOrder(columns_data), Flagged, Cand)

IsSearchTextColumn(row) ==
    row.data_type # "" /\ UpperContainsAny(row.data_type, {"VARCHAR", "TEXT", "STRING"})

identify_search_candidates(columns_data) ==
    LET TextRows == SelectSeq(columns_data, IsSearchTextColumn)
        InTable(t) == SelectSeq(TextRows, LAMBDA r : r.table = t)
        IsLong(r) == (IF Truthy(r.max_len) THEN r.max_len ELSE 0) >= 200
        LongText(t) == FilterMap(InTable(t), IsLong, ColumnName)
        Flagged(t) == Len(LongText(t)) >= 2
        Cand(t) == [Candidate(t, "", FeatSearch, "", NONE, FALSE)
                       EXCEPT !.evidence = Take(LongText(t), 5)]
    IN  FilterMap(TablesInOrder(TextRows), Flagged, Cand)

\* all_candidates = llm + variant + ml + search
ClassifyAll(columns_data) ==
    identify_llm_candidates(columns_data) \o identify_variant_candidates(columns_data)
    \o identify_ml_candidates(columns_data) \o identify_search_candidates(columns_data)

\* all(k in cand for k in ['database', 'schema', 'table', 'column'])
HasColumnIdentity(cand) == cand.column # ""

----------------------------------------------------------------------------
(* Default scoring *)

PIIIndicators ==
    {"EMAIL", "SSN", "PHONE", "ADDRESS", "NAME", "DOB", "BIRTH", "PASSWORD", "SECRET"}

\* A text profile: avg_length in hundredths, the two counts as sampled
TextProfile(table, column, avg_length, non_null_count, total_rows_sampled) ==
    [table |-> table, column |-> column, avg_length |-> avg_length,
     non_null_count |-> non_null_count, total_rows_sampled |-> total_rows_sampled]

Max(a, b) == IF a >= b THEN a ELSE b

\* data_readiness of score_candidate: 3, or what the first text profile with
\* the candidate's key gives
ProfiledReadiness(candidate, profiles) ==
    LET Matches(p) == candidate.column # "" /\ p.table = candidate.table
                      /\ p.column = candidate.column
        hits == SelectSeq(profiles, Matches)
    IN  IF hits = <<>> THEN 300
        ELSE LET p == hits[1]
                 long == IF p.avg_length > 100 * 100 THEN 400 ELSE 300
             IN  IF /\ Truthy(p.non_null_count) /\ Truthy(p.total_rows_sampled)
                    /\ 10 * p.non_null_count > 9 * Max(p.total_rows_sampled, 1)
                 THEN 500 ELSE long

\* score_candidate whose data_readiness starts at 4
ScoreCandidateReadyByDefault(candidate, profiles) ==
    LET business_potential ==
            CASE candidate.ai_feature = FeatLLM -> 400
              [] candidate.ai_feature = FeatML -> 500
              [] candidate.ai_feature = FeatSearch -> 400
              [] candidate.ai_feature = FeatExtract -> 300
              [] OTHER -> 300
        metadata_quality == IF candidate.comment THEN 400 ELSE 200
        governance_risk ==
            IF \/ UpperContainsAny(candidate.column, PIIIndicators)
               \/ UpperContainsAny(candidate.table, PIIIndicators)
            THEN 500 ELSE 200
        scores == Scores(business_potential, Max(400, ProfiledReadiness(candidate, profiles)),
                         metadata_quality, governance_risk)
    IN  [candidate EXCEPT !.scores = scores, !.total_score = SumScores(scores)]

score_candidate(candidate, profiles) ==
    LET business_potential ==
            CASE candidate.ai_feature = FeatLLM -> 400
              [] candidate.ai_feature = FeatML -> 500
              [] candidate.ai_feature = FeatSearch -> 400
              [] candidate.ai_feature = FeatExtract -> 300
              [] OTHER -> 300
        metadata_quality == IF candidate.comment THEN 400 ELSE 200
        governance_risk ==
            IF \/ UpperContainsAny(candidate.column, PIIIndicators)
               \/ UpperContainsAny(candidate.table, PIIIndicators)
            THEN 500 ELSE 200
        scores == Scores(business_potential, ProfiledReadiness(candidate, profiles),
                         metadata_quality, governance_risk)
    IN  [candidate EXCEPT !.scores = scores, !.total_score = SumScores(scores)]

\* The rescoring block shared by stage 2E, analyze_candidates (2C) and
\* run_full_scan_analysis: put a new data_readiness into the scores, creating
\* them if asked to, and recompute total_score.
DefaultRescoreScores == Scores(300, NONE, 200, 200)

\* a rescoring that writes data_readiness and leaves total_score as it was
RescoreKeepingTotal(cand, enhanced_score, create) ==
    IF ~cand.scores.present /\ ~create THEN cand
    ELSE LET base == IF cand.scores.present THEN cand.scores ELSE DefaultRescoreScores
         IN  [cand EXCEPT !.scores = [base EXCEPT !.data_readiness = enhanced_score]]

Rescore(cand, enhanced_score, create) ==
    IF ~cand.scores.present /\ ~create THEN cand
    ELSE LET base == IF cand.scores.present THEN cand.scores ELSE DefaultRescoreScores
             scores == [base EXCEPT !.data_readiness = enhanced_score]
         IN  [cand EXCEPT !.scores = scores, !.total_score = SumScores(scores)]

----------------------------------------------------------------------------
(* Statistics from metadata and from sampling *)

\* One entry of the column metadata lookup (ACCOUNT_USAGE.COLUMNS)
ColumnMeta(data_type, character_maximum_length, is_nullable, has_comment) ==
    [found |-> TRUE, data_type |-> data_type,
     character_maximum_length |-> character_maximum_length,
     is_nullable |-> is_nullable, has_comment |-> has_comment]

NoColumnMeta ==
    [found |-> FALSE, data_type |-> "", character_maximum_length |-> NONE,
     is_nullable |-> "YES", has_comment |-> FALSE]

\* data_type.split('(')[0].strip(), on the characters
BeforeParen(letters) ==
    IF \E i \in DOMAIN letters : letters[i] = "("
    THEN SubSeq(letters, 1, (CHOOSE i \in DOMAIN letters :
                                /\ letters[i] = "("
                                /\ \A j \in 1..(i - 1) : letters[j] # "(") - 1)
    ELSE letters

Strip(letters) ==
    LET keep == {i \in DOMAIN letters : letters[i] # " "}
    IN  IF keep = {} THEN <<>>
        ELSE SubSeq(letters, CHOOSE i \in keep : \A j \in keep : i <= j,
                             CHOOSE i \in keep : \A j \in keep : i >= j)

BaseType(data_type) == Strip(BeforeParen(Upper(Spell(data_type))))

compute_column_metadata_stats(column_meta) ==
    LET base_type == BaseType(column_meta.data_type)
        is_text == \E t \in {"VARCHAR", "TEXT", "STRING", "CHAR"} :
                       IsSubstring(Spell(t), base_type)
        char_max_len == column_meta.character_maximum_length
        null_percentage == IF column_meta.is_nullable = "NO" THEN 0 ELSE 20 * 100
    IN  IF is_text
        THEN IF Truthy(char_max_len)
             THEN Statistics("dict", null_percentage,
                             Round2(Min(char_max_len * 300, 5000 * 1000)), char_max_len,
                             column_meta.has_comment, column_meta.is_nullable)
             ELSE Statistics("dict", null_percentage, 100 * 100, 16777216,
                             column_meta.has_comment, column_meta.is_nullable)
        ELSE Statistics("dict", null_percentage, NONE, NONE,
                        column_meta.has_comment, column_meta.is_nullable)

\* default statistics that say a fifth of the rows are NULL
DefaultStatisticsWithNulls == Statistics("dict", 20 * 100, NONE, NONE, FALSE, "absent")

\* statistics = {'source': 'metadata_only', 'row_count': 0}
DefaultMetadataStatistics == Statistics("dict", NONE, NONE, NONE, FALSE, "absent")

\* The row a sampling or full-scan query returns: COUNT(*), COUNT(col),
\* MAX(LENGTH(col)), AVG(LENGTH(col)) (hundredths, NONE for NULL)
QueryRow(row_count, non_null_count, max_length, avg_length) ==
    [row_count |-> row_count, non_null_count |-> non_null_count,
     max_length |-> max_length, avg_length |-> avg_length]

\* nearest integer to n / d, ties to even
RoundDiv(n, d) ==
    LET q == n \div d
        r == n % d
    IN  IF 2 * r > d \/ (2 * r = d /\ q % 2 = 1) THEN q + 1 ELSE q

\* The statistics dict built from a query row by run_adaptive_sample and
\* run_full_scan_analysis
QueryStatistics(data_type, row) ==
    LET is_numeric == UpperContainsAny(data_type, {"NUMBER", "INT", "FLOAT", "DOUBLE", "DECIMAL"})
        null_percentage == IF row.row_count > 0
                           THEN RoundDiv((row.row_count - row.non_null_count) * 100 * 100,
                                         row.row_count)
                           ELSE 100 * 100
    IN  IF is_numeric
        THEN Statistics("dict", null_percentage, NONE, NONE, FALSE, "absent")
        ELSE Statistics("dict", null_percentage, row.avg_length, row.max_length,
                        FALSE, "absent")

\* The sampling ladder; only the identity of a size matters here
SAMPLE_SIZES == <<"10000", "1000", "100">>

\* What the database does with one query: "row" (a row comes back),
\* "norow" (fetchone() gives None) or "raise" (the query fails with `error`)
Attempt(kind, row, error) == [kind |-> kind, row |-> row, error |-> error]

SampleResult(success, statistics, sample_size, error_msg) ==
    [success |-> success, statistics |-> statistics, sample_size |-> sample_size,
     error_msg |-> error_msg]

\* run_adaptive_sample that keeps trying smaller sizes after a success and
\* reports the last size that gave a row
AdaptiveSampleLastRow(data_type, attempts, i) ==
    LET rows == {j \in i..Len(SAMPLE_SIZES) : attempts[j].kind = "row"}
        last == CHOOSE j \in rows : \A k \in rows : k <= j
    IN  IF rows = {}
        THEN SampleResult(FALSE, NoStatistics, "None", "All sampling attempts failed")
        ELSE SampleResult(TRUE, QueryStatistics(data_type, attempts[last].row),
                          SAMPLE_SIZES[last], "")

\* run_adaptive_sample; attempts[i] is what the database does with the query
\* for SAMPLE_SIZES[i], should that query be made
RECURSIVE AdaptiveSampleFrom(_, _, _)
AdaptiveSampleFrom(data_type, attempts, i) ==
    IF i > Len(SAMPLE_SIZES)
    THEN SampleResult(FALSE, NoStatistics, "None", "All sampling attempts failed")
    ELSE IF attempts[i].kind = "row"
    THEN SampleResult(TRUE, QueryStatistics(data_type, attempts[i].row), SAMPLE_SIZES[i], "")
    ELSE IF attempts[i].kind = "raise" /\ i = Len(SAMPLE_SIZES)
    THEN SampleResult(FALSE, NoStatistics, "None", attempts[i].error)
    ELSE AdaptiveSampleFrom(data_type, attempts, i + 1)

run_adaptive_sample(data_type, attempts) == AdaptiveSampleFrom(data_type, attempts, 1)

\* the sizes for which run_adaptive_sample sends its query, in the order sent:
\* the loop goes on after a size only if the query raised (and a size is
\* left) or no row came back
RECURSIVE SampleQueriesFrom(_, _)
SampleQueriesFrom(attempts, i) ==
    IF i > Len(SAMPLE_SIZES) THEN <<>>
    ELSE IF attempts[i].kind = "row" \/ (attempts[i].kind = "raise" /\ i = Len(SAMPLE_SIZES))
    THEN <<SAMPLE_SIZES[i]>>
    ELSE <<SAMPLE_SIZES[i]>> \o SampleQueriesFrom(attempts, i + 1)

----------------------------------------------------------------------------
(* Statements on the connection.  An event is an entry appended to AUDIT_LOG *)
(* ("audit") or a statement passed to cursor.execute ("send").               *)

\* execute_query: the events it causes and whether it raises
execute_query(query) ==
    LET query_upper == Upper(Strip(Spell(query)))
        select == Spell("SELECT")
    IN  IF ~(Len(query_upper) >= Len(select)
             /\ SubSeq(query_upper, 1, Len(select)) = select)
        THEN [raises |-> TRUE, events |-> <<>>]
        ELSE [raises |-> FALSE, events |-> <<[kind |-> "audit", statement |-> query], [kind |-> "send", statement |-> query]>>]

\* what run_adaptive_sample does on the connection for the sizes it tries:
\* the session timeout and the sampling query, both by cursor.execute
RECURSIVE SampleEvents(_)
SampleEvents(queries) ==
    IF queries = <<>> THEN <<>>
    ELSE <<[kind |-> "send", statement |-> "ALTER SESSION"], [kind |-> "send", statement |-> "SELECT SAMPLE"]>>
             \o SampleEvents(Tail(queries))

----------------------------------------------------------------------------
(* The analysis cache *)

\* cache_key = f"{db}.{schema}.{table}.{column}"
CacheKey(cand) == <<cand.table, cand.column>>

CacheEntry(analysis_type, sample_size, statistics) ==
    [analysis_type |-> analysis_type, sample_size |-> sample_size,
     statistics |-> statistics]

\* cache[key] = entry
CachePut(c, key, entry) ==
    [k \in DOMAIN c \cup {key} |-> IF k = key THEN entry ELSE c[k]]

----------------------------------------------------------------------------
(* The analysis steps as functions of the candidate list and the cache.     *)
(* Each returns the list and the cache as the step leaves them.             *)

Loop(cands, c) == [cands |-> cands, cache |-> c]

\* analyze_column_data that also caches what a failed sampling returned
AnalyzeCachingFailures(candidate, c, force, attempts) ==
    IF ~HasColumnIdentity(candidate)
    THEN [candidate |-> candidate, cache |-> c, success |-> FALSE, from_cache |-> FALSE]
    ELSE IF candidate.ai_feature \notin {FeatLLM, FeatExtract}
    THEN [candidate |-> [candidate EXCEPT !.statistics = EmptyStatistics],
          cache |-> c, success |-> TRUE, from_cache |-> FALSE]
    ELSE IF CacheKey(candidate) \in DOMAIN c /\ ~force
    THEN [candidate |-> [candidate EXCEPT
                            !.statistics = c[CacheKey(candidate)].statistics,
                            !.sample_size = c[CacheKey(candidate)].sample_size],
          cache |-> c, success |-> TRUE, from_cache |-> TRUE]
    ELSE LET r == run_adaptive_sample(candidate.data_type, attempts)
         IN  [candidate |-> IF r.success
                            THEN [candidate EXCEPT !.statistics = r.statistics,
                                                   !.sample_size = r.sample_size]
                            ELSE candidate,
              cache |-> CachePut(c, CacheKey(candidate),
                                 CacheEntry("sample", r.sample_size, r.statistics)),
              success |-> r.success, from_cache |-> FALSE]

\* analyze_column_data; `attempts` is what the database does with the
\* sampling queries
analyze_column_data(candidate, c, force, attempts) ==
    IF ~HasColumnIdentity(candidate)
    THEN [candidate |-> candidate, cache |-> c, success |-> FALSE, from_cache |-> FALSE]
    ELSE IF candidate.ai_feature \notin {FeatLLM, FeatExtract}
    THEN [candidate |-> [candidate EXCEPT !.statistics = EmptyStatistics],
          cache |-> c, success |-> TRUE, from_cache |-> FALSE]
    ELSE IF CacheKey(candidate) \in DOMAIN c /\ ~force
    THEN [candidate |-> [candidate EXCEPT
                            !.statistics = c[CacheKey(candidate)].statistics,
                            !.sample_size = c[CacheKey(candidate)].sample_size],
          cache |-> c, success |-> TRUE, from_cache |-> TRUE]
    ELSE LET r == run_adaptive_sample(candidate.data_type, attempts)
         IN  IF r.success
             THEN [candidate |-> [candidate EXCEPT !.statistics = r.statistics,
                                                   !.sample_size = r.sample_size],
                   cache |-> CachePut(c, CacheKey(candidate),
                                      CacheEntry("sample", r.sample_size, r.statistics)),
                   success |-> TRUE, from_cache |-> FALSE]
             ELSE [candidate |-> candidate, cache |-> c,
                   success |-> FALSE, from_cache |-> FALSE]

\* the sampling queries analyze_column_data sends, as sizes in the order sent
AnalyzeQueries(candidate, c, force, attempts) ==
    IF \/ ~HasColumnIdentity(candidate)
       \/ candidate.ai_feature \notin {FeatLLM, FeatExtract}
       \/ (CacheKey(candidate) \in DOMAIN c /\ ~force)
    THEN <<>>
    ELSE SampleQueriesFrom(attempts, 1)

\* column candidates that are not cached, rescore, save the cache file.
\* `file` is the cache file; attempts[i] belongs to candidate i.
analyze_candidates(cands, file, force, attempts) ==
    LET Analyzable(cand) == cand.ai_feature \in {FeatLLM, FeatExtract}
                            /\ HasColumnIdentity(cand)
        loaded == IF force THEN NoCache ELSE file
        Sampled[i \in 0..Len(cands)] ==
            IF i = 0 THEN Loop(cands, loaded)
            ELSE LET st == Sampled[i - 1]
                     cand == st.cands[i]
                     key == CacheKey(cand)
                 IN  IF ~Analyzable(cand) THEN st
                     ELSE IF key \in DOMAIN st.cache /\ ~force
                     THEN Loop([st.cands EXCEPT ![i].statistics = st.cache[key].statistics,
                                                ![i].sample_size = st.cache[key].sample_size],
                               st.cache)
                     ELSE LET r == run_adaptive_sample(cand.data_type, attempts[i])
                          IN  IF r.success
                              THEN Loop([st.cands EXCEPT ![i].statistics = r.statistics,
                                                         ![i].sample_size = r.sample_size],
                                        CachePut(st.cache, key,
                                                 CacheEntry("sample", r.sample_size,
                                                            r.statistics)))
                              ELSE st
        after == Sampled[Len(cands)]
        Rescored(cand) ==
            IF Analyzable(cand) /\ cand.statistics.kind # "absent"
            THEN Rescore(cand, enhance_data_readiness_score(cand, cand.statistics), TRUE)
            ELSE cand
    IN  Loop([i \in DOMAIN cands |-> Rescored(after.cands[i])], after.cache)

\* identify_top_candidates that also takes candidates without a total_score
IdentifyTopUnscored(cands, top_n) ==
    LET identified == {i \in DOMAIN cands : HasColumnIdentity(cands[i])}
        Rank(i) == Cardinality({j \in identified : j < i}) + 1
        listed == [r \in 1..Cardinality(identified) |-> CHOOSE i \in identified : Rank(i) = r]
    IN  Take(listed, top_n)

\* identify_top_candidates: the indices of the scorable candidates, by
\* total_score descending, equal scores in list order, cut at top_n
identify_top_candidates(cands, top_n) ==
    LET scorable == {i \in DOMAIN cands :
                        cands[i].total_score # NONE /\ HasColumnIdentity(cands[i])}
        Before(j, i) == \/ cands[j].total_score > cands[i].total_score
                        \/ cands[j].total_score = cands[i].total_score /\ j < i
        Rank(i) == Cardinality({j \in scorable : Before(j, i)}) + 1
        sorted == [r \in 1..Cardinality(scorable) |-> CHOOSE i \in scorable : Rank(i) = r]
    IN  Take(sorted, top_n)

\* run_full_scan_analysis over the candidates at the indices `top`;
\* outcomes[i] is what the database does with the full-scan query of
\* candidate i
run_full_scan_analysis(cands, top, c, outcomes) ==
    LET Scanned[n \in 0..Len(top)] ==
            IF n = 0 THEN Loop(cands, c)
            ELSE LET st == Scanned[n - 1]
                     i == top[n]
                     cand == st.cands[i]
                 IN  IF outcomes[i].kind # "row" THEN st
                     ELSE LET stats == QueryStatistics(cand.data_type, outcomes[i].row)
                              scanned == [cand EXCEPT !.statistics = stats,
                                                      !.sample_size = "full"]
                          IN  Loop([st.cands EXCEPT ![i] =
                                       Rescore(scanned,
                                               enhance_data_readiness_score(scanned, stats),
                                               FALSE)],
                                   CachePut(st.cache, CacheKey(cand),
                                            CacheEntry("full_scan", "full", stats)))
    IN  Scanned[Len(top)]

\* Stage 2B of run_agent: statistics from the column metadata lookup
MetadataAnalysis(cands, c, lookup) ==
    LET Analyzed[i \in 0..Len(cands)] ==
            IF i = 0 THEN Loop(cands, c)
            ELSE LET st == Analyzed[i - 1]
                     cand == st.cands[i]
                     key == CacheKey(cand)
                     col_meta == IF key \in DOMAIN lookup THEN lookup[key] ELSE NoColumnMeta
                 IN  IF col_meta.found
                     THEN LET stats == compute_column_metadata_stats(col_meta)
                          IN  Loop([st.cands EXCEPT ![i].statistics = stats,
                                                    ![i].sample_size = "metadata"],
                                   CachePut(st.cache, key,
                                            CacheEntry("metadata_only", "metadata", stats)))
                     ELSE Loop([st.cands EXCEPT ![i].statistics = DefaultMetadataStatistics],
                               st.cache)
    IN  Analyzed[Len(cands)]

\* Stage 2E of run_agent: rescore the top candidates that have statistics
MetadataRescoring(cands, top) ==
    LET InTop(i) == \E n \in DOMAIN top : top[n] = i
        Rescored(i) ==
            IF InTop(i) /\ cands[i].statistics.kind = "dict"
            THEN Rescore(cands[i],
                         enhance_data_readiness_score_metadata(cands[i], cands[i].statistics),
                         TRUE)
            ELSE cands[i]
    IN  [i \in DOMAIN cands |-> Rescored(i)]

----------------------------------------------------------------------------
(* SpecOps: the scoring and analysis operations applied in any order to the *)
(* candidates of one small catalog and to one analysis cache.               *)

\* how many candidates a top list takes (200 by default; small here)
TOP_CANDIDATES_FULL_SCAN == 2

OpsCatalog ==
    <<ColumnRow("ORDERS", "DESCRIPTION", "VARCHAR", 2000, "YES", TRUE),
      ColumnRow("ORDERS", "PAYLOAD", "VARIANT", NONE, "YES", FALSE),
      ColumnRow("ORDERS", "ORDER_DATE", "TIMESTAMP_NTZ", NONE, "NO", FALSE),
      ColumnRow("ORDERS", "AMOUNT", "NUMBER", NONE, "NO", FALSE)>>

GoodRow == QueryRow(100, 95, 1800, 250 * 100)
SparseRow == QueryRow(100, 40, 300, 20 * 100)
NoRow == QueryRow(0, 0, NONE, NONE)

\* what the database may do with the three sampling queries of a column
OpsLadders ==
    {<<Attempt("raise", NoRow, "timeout"), Attempt("norow", NoRow, ""),
       Attempt("raise", NoRow, "timeout")>>,
     <<Attempt("raise", NoRow, "timeout"), Attempt("row", GoodRow, ""),
       Attempt("row", SparseRow, "")>>}

\* what the database may do with the full-scan query of a column
OpsScans ==
    {Attempt("raise", NoRow, "timeout"), Attempt("norow", NoRow, ""),
     Attempt("row", GoodRow, "")}

\* the column metadata lookup (cache key -> ACCOUNT_USAGE.COLUMNS entry);
\* PAYLOAD is not in it
OpsLookup ==
    [k \in {<<"ORDERS", "DESCRIPTION">>} |-> ColumnMeta("VARCHAR(40)", 40, "NO", TRUE)]

\* the text profiles of stage 4 for this catalog
OpsTextProfiles == <<TextProfile("ORDERS", "DESCRIPTION", 600 * 100, 0, 0)>>

InitOps ==
    /\ arg = [candidate |-> NONE, profile |-> NoProfile]
    /\ ret = RetNone
    /\ pc = "idle" /\ start_stage = "" /\ columns = OpsCatalog
    /\ all_candidates = ClassifyAll(OpsCatalog)
    /\ top_candidates = <<>>
    /\ existing_candidates = <<>>
    /\ cache = NoCache
    /\ text_rich_columns = <<>>
    /\ text_profiles = OpsTextProfiles
    /\ disk = NoDisk
    /\ FORCE_REANALYSIS \in BOOLEAN
    /\ RUN_MODE = "fresh"

\* score_candidate(all_candidates[i], text_profiles)
OpScoreCandidate ==
    \E i \in DOMAIN all_candidates :
        /\ all_candidates' = [all_candidates EXCEPT ![i] = score_candidate(@, text_profiles)]
        /\ UNCHANGED <<funvars, runvars, top_candidates, cache, confvars>>

\* analyze_column_data(conn, all_candidates[i], cache)
OpAnalyzeColumnData ==
    \E i \in DOMAIN all_candidates, attempts \in OpsLadders :
        LET r == analyze_column_data(all_candidates[i], cache, FORCE_REANALYSIS, attempts)
        IN  /\ all_candidates' = [all_candidates EXCEPT ![i] = r.candidate]
            /\ cache' = r.cache
            /\ UNCHANGED <<funvars, runvars, top_candidates, confvars>>

\* analyze_candidates(conn, all_candidates); the cache is the cache file
OpAnalyzeCandidates ==
    \E attempts \in [DOMAIN all_candidates -> OpsLadders] :
        LET r == analyze_candidates(all_candidates, cache, FORCE_REANALYSIS, attempts)
        IN  /\ all_candidates' = r.cands
            /\ cache' = r.cache
            /\ UNCHANGED <<funvars, runvars, top_candidates, confvars>>

\* top_candidates = identify_top_candidates(all_candidates, top_n)
OpIdentifyTop ==
    /\ top_candidates' = identify_top_candidates(all_candidates, TOP_CANDIDATES_FULL_SCAN)
    /\ UNCHANGED <<funvars, runvars, all_candidates, cache, confvars>>

\* run_full_scan_analysis(conn, top_candidates, cache)
OpFullScan ==
    \E outcomes \in [{top_candidates[n] : n \in DOMAIN top_candidates} -> OpsScans] :
        LET r == run_full_scan_analysis(all_candidates, top_candidates, cache, outcomes)
        IN  /\ top_candidates # <<>>
            /\ all_candidates' = r.cands
            /\ cache' = r.cache
            /\ UNCHANGED <<funvars, runvars, top_candidates, confvars>>

\* the body of stage 2B of run_agent
OpMetadataAnalysis ==
    LET r == MetadataAnalysis(all_candidates, cache, OpsLookup)
    IN  /\ all_candidates' = r.cands
        /\ cache' = r.cache
        /\ UNCHANGED <<funvars, runvars, top_candidates, confvars>>

\* the body of stage 2E of run_agent
OpMetadataRescoring ==
    /\ top_candidates # <<>>
    /\ all_candidates' = MetadataRescoring(all_candidates, top_candidates)
    /\ UNCHANGED <<funvars, runvars, top_candidates, cache, confvars>>

NextOps ==
    \/ OpScoreCandidate
    \/ OpAnalyzeColumnData
    \/ OpAnalyzeCandidates
    \/ OpIdentifyTop
    \/ OpFullScan
    \/ OpMetadataAnalysis
    \/ OpMetadataRescoring

SpecOps == InitOps /\ [][NextOps]_vars

----------------------------------------------------------------------------
(* Spec: run_agent, run after run over the same output directory.  One      *)
(* action per stage; a stage that should_run_stage rejects takes its skip   *)
(* branch.  The skip branches read intermediate_state, which                *)
(* load_intermediate_state fills from the files when the run starts; the    *)
(* skipped stages all come before the first stage that writes a file, so    *)
(* the files still hold what intermediate_state holds and are read here.    *)

VALID_STAGES == <<"1", "2", "2A", "2B", "2C", "2D", "2E", "2F", "3", "4", "5", "5B", "6">>

\* STAGE_ORDER.get(stage, 0)
STAGE_ORDER(stage) ==
    IF \E i \in DOMAIN VALID_STAGES : VALID_STAGES[i] = stage
    THEN (CHOOSE i \in DOMAIN VALID_STAGES : VALID_STAGES[i] = stage) - 1
    ELSE 0

\* stage.upper(), as the stage name it spells (itself if it spells none)
UpperStage(stage) ==
    LET upper == Upper(Spell(stage))
    IN  IF \E i \in DOMAIN VALID_STAGES : Spell(VALID_STAGES[i]) = upper
        THEN VALID_STAGES[CHOOSE i \in DOMAIN VALID_STAGES : Spell(VALID_STAGES[i]) = upper]
        ELSE stage

should_run_stage(current_stage, start) ==
    IF start = "" THEN TRUE
    ELSE STAGE_ORDER(UpperStage(current_stage)) >= STAGE_ORDER(UpperStage(start))

\* the stage run_agent comes to after `stage`
StageAfter(stage) ==
    IF stage = "6" THEN "idle" ELSE VALID_STAGES[STAGE_ORDER(stage) + 2]

APPEND_STRATEGY == "merge"

\* a row of full_inventory.csv as load_intermediate_state rebuilds it:
\* MAX_LENGTH comes back as text, nullable is 'YES'
CsvRow(row) == [row EXCEPT !.csv = TRUE, !.is_nullable = "YES"]

CsvRows(rows) == [i \in DOMAIN rows |-> CsvRow(rows[i])]

\* max_len and max_len >= 500  raises TypeError on a non-empty text
ClassifyRaises(columns_data) ==
    \E i \in DOMAIN columns_data :
        /\ columns_data[i].csv
        /\ columns_data[i].data_type # ""
        /\ Truthy(columns_data[i].max_len)

\* identify_search_candidates:  length >= 200  raises TypeError on a text
\* column whose max_len is a non-empty text
SearchRaises(columns_data) ==
    \E i \in DOMAIN columns_data :
        /\ columns_data[i].csv
        /\ IsSearchTextColumn(columns_data[i])
        /\ Truthy(columns_data[i].max_len)

\* the per-feature lists run_agent rebuilds from the loaded candidates when
\* stage 2 is skipped: the candidates whose ai_feature is 'Cortex LLM',
\* 'Cortex Extract', 'Cortex ML', 'Cortex Search / RAG'
RestoreCandidateLists(loaded) ==
    LET WithFeature(f) == SelectSeq(loaded, LAMBDA c : c.ai_feature = f)
    IN  [llm_candidates |-> WithFeature("Cortex LLM"),
         variant_candidates |-> WithFeature("Cortex Extract"),
         ml_candidates |-> WithFeature("Cortex ML"),
         search_candidates |-> WithFeature("Cortex Search / RAG")]

\* load_analysis_cache
load_analysis_cache(d, force) == IF ~d.has_cache \/ force THEN NoCache ELSE d.cache

\* load_existing_candidates
load_existing_candidates(d) == IF d.has_candidates THEN d.candidates ELSE <<>>

\* merge_candidates with the "update existing candidate" branch filled in
MergeUpdating(existing, new_candidates) ==
    LET M[i \in 0..Len(new_candidates)] ==
            IF i = 0 THEN existing
            ELSE IF \E j \in DOMAIN M[i - 1] :
                        CacheKey(M[i - 1][j]) = CacheKey(new_candidates[i])
                 THEN [j \in DOMAIN M[i - 1] |->
                           IF CacheKey(M[i - 1][j]) = CacheKey(new_candidates[i])
                           THEN new_candidates[i] ELSE M[i - 1][j]]
                 ELSE Append(M[i - 1], new_candidates[i])
    IN  M[Len(new_candidates)]

\* merge_candidates that looks for the key among the existing candidates only
MergeAgainstExisting(existing, new_candidates) ==
    existing \o SelectSeq(new_candidates,
                          LAMBDA c : \A j \in DOMAIN existing : CacheKey(existing[j]) # CacheKey(c))

\* merge_candidates(existing, new_candidates)
merge_candidates(existing, new_candidates) ==
    LET M[i \in 0..Len(new_candidates)] ==
            IF i = 0 THEN existing
            ELSE IF \E j \in DOMAIN M[i - 1] :
                        CacheKey(M[i - 1][j]) = CacheKey(new_candidates[i])
                 THEN M[i - 1]
                 ELSE Append(M[i - 1], new_candidates[i])
    IN  M[Len(new_candidates)]

\* one row of find_text_rich_columns
TextRichRow(table, column, max_len) == [table |-> table, column |-> column, max_len |-> max_len]

\* stage 4: one metadata-only text profile per table, from the first 15 rows
TextProfilesOf(rows) ==
    LET first == Take(rows, 15)
        Kept(i) == \A j \in 1..(i - 1) : first[j].table # first[i].table
        estimated(r) == IF Truthy(r.max_len)
                        THEN Round2(Min(r.max_len * 300, 5000 * 1000))
                        ELSE 100 * 100
        F[i \in 0..Len(first)] ==
            IF i = 0 THEN <<>>
            ELSE IF Kept(i)
                 THEN Append(F[i - 1], TextProfile(first[i].table, first[i].column,
                                                   estimated(first[i]), 0, 0))
                 ELSE F[i - 1]
    IN  F[Len(first)]

\* what the database answers in a run
Catalogs == {<<ColumnRow("ORDERS", "NOTES", "VARCHAR", 200, "YES", FALSE)>> \o OpsCatalog}
Lookups ==
    {OpsLookup, [k \in {} |-> NoColumnMeta],
     [k \in {<<"ORDERS", "DESCRIPTION">>, <<"ORDERS", "PAYLOAD">>} |->
         IF k[2] = "DESCRIPTION" THEN ColumnMeta("VARCHAR", 2000, "YES", TRUE)
         ELSE ColumnMeta("VARIANT", NONE, "YES", FALSE)]}
TextRichResults == {<<>>, <<TextRichRow("ORDERS", "DESCRIPTION", 2000)>>}

Init ==
    /\ arg = [candidate |-> NONE, profile |-> NoProfile]
    /\ ret = RetNone
    /\ NothingRunning
    /\ FORCE_REANALYSIS \in BOOLEAN
    /\ RUN_MODE \in {"fresh", "append"}

\* python3 snowflake_full_analysis.py [--start-stage S]
StartRun ==
    \E s \in {""} \cup {VALID_STAGES[i] : i \in DOMAIN VALID_STAGES} :
        /\ pc = "idle"
        /\ pc' = "1"
        /\ start_stage' = s
        /\ existing_candidates' = IF RUN_MODE = "append"
                                  THEN load_existing_candidates(disk) ELSE <<>>
        /\ UNCHANGED <<funvars, columns, all_candidates, top_candidates, cache,
                       text_rich_columns, text_profiles, disk, confvars>>

\* the process ends: nothing stays in memory
EndRun ==
    /\ pc' = "idle"
    /\ start_stage' = ""
    /\ columns' = <<>>
    /\ all_candidates' = <<>>
    /\ top_candidates' = <<>>
    /\ existing_candidates' = <<>>
    /\ cache' = NoCache
    /\ text_rich_columns' = <<>>
    /\ text_profiles' = <<>>

Stage1 ==
    /\ pc = "1"
    /\ pc' = StageAfter("1")
    /\ IF should_run_stage("1", start_stage)
       THEN \E catalog \in Catalogs :
               /\ columns' = catalog
               /\ disk' = [disk EXCEPT !.has_inventory = TRUE,
                                       !.inventory = CsvRows(catalog)]
       ELSE /\ columns' = disk.inventory
            /\ UNCHANGED disk
    /\ UNCHANGED <<funvars, start_stage, all_candidates, top_candidates,
                   existing_candidates, cache, text_rich_columns, text_profiles, confvars>>

Stage2 ==
    /\ pc = "2"
    /\ IF should_run_stage("2", start_stage)
       THEN IF ClassifyRaises(columns)
            THEN EndRun /\ UNCHANGED <<funvars, disk, confvars>>
            ELSE /\ pc' = StageAfter("2")
                 /\ all_candidates' = ClassifyAll(columns)
                 /\ UNCHANGED <<funvars, start_stage, columns, top_candidates,
                                existing_candidates, cache, text_rich_columns,
                                text_profiles, disk, confvars>>
       ELSE /\ pc' = StageAfter("2")
            /\ all_candidates' = load_existing_candidates(disk)
            /\ UNCHANGED <<funvars, start_stage, columns, top_candidates,
                           existing_candidates, cache, text_rich_columns,
                           text_profiles, disk, confvars>>

Stage2A ==
    /\ pc = "2A"
    /\ pc' = StageAfter("2A")
    /\ cache' = load_analysis_cache(disk, FORCE_REANALYSIS)
    /\ UNCHANGED <<funvars, start_stage, columns, all_candidates, top_candidates,
                   existing_candidates, text_rich_columns, text_profiles, disk, confvars>>

Stage2B ==
    /\ pc = "2B"
    /\ pc' = StageAfter("2B")
    /\ IF should_run_stage("2B", start_stage)
       THEN \E lookup \in Lookups :
               LET r == MetadataAnalysis(all_candidates, cache, lookup)
               IN  all_candidates' = r.cands /\ cache' = r.cache
       ELSE UNCHANGED <<all_candidates, cache>>
    /\ UNCHANGED <<funvars, start_stage, columns, top_candidates, existing_candidates,
                   text_rich_columns, text_profiles, disk, confvars>>

Stage2C ==
    /\ pc = "2C"
    /\ pc' = StageAfter("2C")
    /\ IF should_run_stage("2C", start_stage)
       THEN disk' = [disk EXCEPT !.has_cache = TRUE, !.cache = cache]
       ELSE UNCHANGED disk
    /\ UNCHANGED <<funvars, start_stage, columns, all_candidates, top_candidates,
                   existing_candidates, cache, text_rich_columns, text_profiles, confvars>>

Stage2D ==
    /\ pc = "2D"
    /\ pc' = StageAfter("2D")
    /\ top_candidates' =
           IF should_run_stage("2D", start_stage)
           THEN identify_top_candidates(all_candidates, TOP_CANDIDATES_FULL_SCAN)
           ELSE Take([i \in DOMAIN all_candidates |-> i], TOP_CANDIDATES_FULL_SCAN)
    /\ UNCHANGED <<funvars, start_stage, columns, all_candidates, existing_candidates,
                   cache, text_rich_columns, text_profiles, disk, confvars>>

Stage2E ==
    /\ pc = "2E"
    /\ pc' = StageAfter("2E")
    /\ IF should_run_stage("2E", start_stage)
       THEN /\ all_candidates' = MetadataRescoring(all_candidates, top_candidates)
            /\ disk' = [disk EXCEPT !.has_cache = TRUE, !.cache = cache]
       ELSE UNCHANGED <<all_candidates, disk>>
    /\ UNCHANGED <<funvars, start_stage, columns, top_candidates, existing_candidates,
                   cache, text_rich_columns, text_profiles, confvars>>

\* stage 2F writes reports and files that no run reads back
Stage2F ==
    /\ pc = "2F"
    /\ pc' = StageAfter("2F")
    /\ UNCHANGED <<funvars, start_stage, columns, all_candidates, top_candidates,
                   existing_candidates, cache, text_rich_columns, text_profiles, disk,
                   confvars>>

Stage3 ==
    /\ pc = "3"
    /\ pc' = StageAfter("3")
    /\ IF should_run_stage("3", start_stage)
       THEN text_rich_columns' \in TextRichResults
       ELSE text_rich_columns' = <<>>
    /\ UNCHANGED <<funvars, start_stage, columns, all_candidates, top_candidates,
                   existing_candidates, cache, text_profiles, disk, confvars>>

Stage4 ==
    /\ pc = "4"
    /\ pc' = StageAfter("4")
    /\ IF should_run_stage("4", start_stage)
       THEN /\ text_profiles' = TextProfilesOf(text_rich_columns)
            /\ disk' = [disk EXCEPT !.has_profiles = TRUE,
                                    !.text_profiles = TextProfilesOf(text_rich_columns)]
       ELSE /\ text_profiles' = disk.text_profiles
            /\ UNCHANGED disk
    /\ UNCHANGED <<funvars, start_stage, columns, all_candidates, top_candidates,
                   existing_candidates, cache, text_rich_columns, confvars>>

Stage5 ==
    /\ pc = "5"
    /\ pc' = StageAfter("5")
    /\ IF should_run_stage("5", start_stage)
       THEN all_candidates' = [i \in DOMAIN all_candidates |->
                                  score_candidate(all_candidates[i], text_profiles)]
       ELSE UNCHANGED all_candidates
    /\ UNCHANGED <<funvars, start_stage, columns, top_candidates, existing_candidates,
                   cache, text_rich_columns, text_profiles, disk, confvars>>

\* cand['is_confirmed_candidate'], cand['confirmation_reasons'] =
\*     is_confirmed_candidate(cand)
Confirmed(cand) ==
    LET verdict == is_confirmed_candidate(cand, NoProfile)
    IN  [cand EXCEPT !.is_confirmed = IF verdict.is_confirmed THEN "True" ELSE "False",
                     !.confirmation_reasons = verdict.reasons]

Stage5B ==
    /\ pc = "5B"
    /\ pc' = StageAfter("5B")
    /\ IF should_run_stage("5B", start_stage)
       THEN LET evaluated == [i \in DOMAIN all_candidates |-> Confirmed(all_candidates[i])]
                saved == IF RUN_MODE = "append" /\ existing_candidates # <<>>
                         THEN merge_candidates(existing_candidates, evaluated)
                         ELSE evaluated
            IN  /\ all_candidates' = saved
                /\ existing_candidates' = IF RUN_MODE = "append" /\ existing_candidates # <<>>
                                          THEN saved ELSE existing_candidates
                /\ disk' = [disk EXCEPT !.has_candidates = TRUE, !.candidates = saved]
       ELSE UNCHANGED <<all_candidates, existing_candidates, disk>>
    /\ UNCHANGED <<funvars, start_stage, columns, top_candidates, cache,
                   text_rich_columns, text_profiles, confvars>>

\* stage 6 writes the reports; then run_agent returns
Stage6 ==
    /\ pc = "6"
    /\ EndRun
    /\ UNCHANGED <<funvars, disk, confvars>>

Next ==
    \/ StartRun
    \/ Stage1
    \/ Stage2
    \/ Stage2A
    \/ Stage2B
    \/ Stage2C
    \/ Stage2D
    \/ Stage2E
    \/ Stage2F
    \/ Stage3
    \/ Stage4
    \/ Stage5
    \/ Stage5B
    \/ Stage6

Spec == Init /\ [][Next]_vars

----------------------------------------------------------------------------
(* SpecFunctions: merge_candidates, run_adaptive_sample, the batch loops,     *)
(* execute_query and the column classifiers as functions of their inputs.    *)
(* arg holds the inputs of one call, ret what the call returns and does.     *)

\* added_count and updated_count of merge_candidates, counted against
\* existing_keys as the loop extends it
MergeCounts(existing, new_candidates) ==
    LET existing_keys[i \in 0..Len(new_candidates)] ==
            IF i = 0 THEN {CacheKey(existing[j]) : j \in DOMAIN existing}
            ELSE existing_keys[i - 1] \cup {CacheKey(new_candidates[i])}
        C[i \in 0..Len(new_candidates)] ==
            IF i = 0 THEN [added_count |-> 0, updated_count |-> 0]
            ELSE IF CacheKey(new_candidates[i]) \notin existing_keys[i - 1]
                 THEN [C[i - 1] EXCEPT !.added_count = @ + 1]
                 ELSE [C[i - 1] EXCEPT !.updated_count = @ + 1]
    IN  C[Len(new_candidates)]

MergeMaxLen == 2

\* candidates of an earlier run and of this run: three keys, two of them
\* carried by two different dicts (a rescored copy; the two table-level
\* candidates of one table, which have no 'column' key)
MergePool ==
    {Candidate("ORDERS", "DESCRIPTION", FeatLLM, "VARCHAR", 2000, TRUE),
     [Candidate("ORDERS", "DESCRIPTION", FeatLLM, "VARCHAR", 2000, TRUE)
         EXCEPT !.total_score = 1100],
     Candidate("ORDERS", "PAYLOAD", FeatExtract, "VARIANT", NONE, FALSE),
     Candidate("ORDERS", "", FeatML, "", NONE, FALSE),
     Candidate("ORDERS", "", FeatSearch, "", NONE, FALSE)}

SeqsUpTo(S, n) == UNION {[1..k -> S] : k \in 0..n}

NoArg ==
    [fn |-> "", existing |-> <<>>, new_candidates |-> <<>>, data_type |-> "",
     attempts |-> <<>>, columns_data |-> <<>>, candidates |-> <<>>, cache |-> NoCache]

MergeArgs ==
    {[NoArg EXCEPT !.fn = "merge", !.existing = e, !.new_candidates = n] :
        e \in SeqsUpTo(MergePool, MergeMaxLen), n \in SeqsUpTo(MergePool, MergeMaxLen + 1)}

\* what the database may do with one sampling query
SampleAttempts ==
    {Attempt("row", GoodRow, ""), Attempt("norow", NoRow, ""),
     Attempt("raise", NoRow, "timeout"), Attempt("raise", NoRow, "denied")}

SampleArgs ==
    {[NoArg EXCEPT !.fn = "sample", !.data_type = t, !.attempts = a] :
        t \in {"VARCHAR", "NUMBER"}, a \in [DOMAIN SAMPLE_SIZES -> SampleAttempts]}

\* the counters and the end-of-batch summary of analyze_candidates;
\* attempts[i] is what the database does with each sampling query of
\* candidate i.  The summary divides by the number of analyzable candidates.
AnalyzeSummary(cands, file, force, attempts) ==
    LET Analyzable(cand) == cand.ai_feature \in {FeatLLM, FeatExtract}
                            /\ HasColumnIdentity(cand)
        Zero == [keys |-> IF force THEN {} ELSE DOMAIN file,
                 processed |-> 0, cached_hits |-> 0, analyzed_count |-> 0,
                 skipped_count |-> 0]
        S[i \in 0..Len(cands)] ==
            IF i = 0 THEN Zero
            ELSE LET st == [S[i - 1] EXCEPT !.processed = @ + 1]
                     key == CacheKey(cands[i])
                     r == run_adaptive_sample(cands[i].data_type,
                                              [n \in DOMAIN SAMPLE_SIZES |-> attempts[i]])
                 IN  IF ~Analyzable(cands[i]) THEN S[i - 1]
                     ELSE IF key \in st.keys /\ ~force
                     THEN [st EXCEPT !.cached_hits = @ + 1]
                     ELSE IF r.success
                     THEN [st EXCEPT !.analyzed_count = @ + 1, !.keys = @ \cup {key}]
                     ELSE [st EXCEPT !.skipped_count = @ + 1]
        end == S[Len(cands)]
    IN  [processed |-> end.processed, cached_hits |-> end.cached_hits,
         analyzed_count |-> end.analyzed_count, skipped_count |-> end.skipped_count,
         summary |-> IF end.processed = 0 THEN "ZeroDivisionError" ELSE "printed"]

\* the counters and the summary of run_full_scan_analysis over the list `top`;
\* outcomes[i] is what the database does with the query of top[i]
FullScanSummary(top, outcomes) ==
    LET Count(kind) == Cardinality({i \in DOMAIN top : outcomes[i].kind = kind})
    IN  [processed |-> Len(top), success_count |-> Count("row"),
         skipped_count |-> Count("raise"), summary |-> "printed"]

\* the counters and the summary of stage 2B of run_agent
MetadataSummary(cands, lookup) ==
    [processed |-> Len(cands), analyzed_count |-> Len(cands),
     new_analyses |-> Cardinality({i \in DOMAIN cands : CacheKey(cands[i]) \in DOMAIN lookup
                                                         /\ lookup[CacheKey(cands[i])].found}),
     skipped_count |-> 0, summary |-> "printed"]

BatchMaxLen == 2

\* candidate lists (the empty one included), what the database does with the
\* queries of each candidate, and the cache file
BatchArgs ==
    LET pool == {Candidate("ORDERS", "DESCRIPTION", FeatLLM, "VARCHAR", 2000, TRUE),
                 [Candidate("ORDERS", "PAYLOAD", FeatExtract, "VARIANT", NONE, FALSE)
                      EXCEPT !.total_score = 1000],
                 Candidate("ORDERS", "", FeatML, "", NONE, FALSE)}
        outcomes == {Attempt("row", GoodRow, ""), Attempt("norow", NoRow, ""),
                     Attempt("raise", NoRow, "timeout")}
        files == {NoCache,
                  CachePut(NoCache, <<"ORDERS", "DESCRIPTION">>,
                           CacheEntry("sample", "1000", EmptyStatistics))}
    IN  UNION {{[NoArg EXCEPT !.fn = "batch", !.candidates = c, !.attempts = a, !.cache = f] :
                   c \in [1..k -> pool], a \in [1..k -> outcomes], f \in files} :
               k \in 0..BatchMaxLen}

\* statements a caller may hand to execute_query
QueryArgs ==
    {[NoArg EXCEPT !.fn = "query", !.data_type = q] :
        q \in {"SELECT 1", " select 1 ", "SELECTED", "ALTER SESSION", "DROP TABLE T",
               "WITH X", ""}}

ClassifyMaxLen == 2

\* column rows as discover_columns gives them, some of them also as
\* load_intermediate_state rebuilds them from full_inventory.csv
ClassifyArgs ==
    LET fresh == {ColumnRow("ORDERS", "DESCRIPTION", "VARCHAR", 2000, "YES", TRUE),
                  ColumnRow("ORDERS", "AMOUNT", "VARCHAR", 500, "YES", FALSE),
                  ColumnRow("ORDERS", "notes", "varchar", 499, "YES", FALSE),
                  ColumnRow("ORDERS", "AMOUNT", "VARCHAR", NONE, "YES", FALSE),
                  ColumnRow("ORDERS", "CONTENT", "VARCHAR(1000)", 1000, "YES", FALSE),
                  ColumnRow("ORDERS", "PAYLOAD", "VARIANT", NONE, "YES", FALSE),
                  ColumnRow("ORDERS", "DESCRIPTION", "variant", NONE, "YES", FALSE),
                  ColumnRow("ORDERS", "NOTES", "OBJECT", NONE, "YES", FALSE),
                  ColumnRow("ORDERS", "CONTENT", "ARRAY", NONE, "YES", FALSE),
                  ColumnRow("ORDERS", "AMOUNT", "NUMBER", NONE, "NO", FALSE),
                  ColumnRow("ORDERS", "DESCRIPTION", "", 2000, "YES", FALSE)}
        restored == {CsvRow(ColumnRow("ORDERS", "DESCRIPTION", "VARCHAR", 2000, "YES", TRUE)),
                     CsvRow(ColumnRow("ORDERS", "PAYLOAD", "VARIANT", NONE, "YES", FALSE))}
    IN  {[NoArg EXCEPT !.fn = "classify", !.columns_data = c] :
            c \in SeqsUpTo(fresh \cup restored, ClassifyMaxLen)}

\* catalogs of two tables, each with or without a timestamp or date column,
\* with no, one, five or six numeric columns and with or without two long
\* text columns; the rows of the tables one after the other or interleaved
TableArgs ==
    LET NumericNames == <<"N1", "N2", "N3", "N4", "N5", "N6">>
        NumericTypes == <<"NUMBER", "float", "DECIMAL", "INTEGER", "DOUBLE", "NUMBER">>
        Rows(t, ts, n, txt) ==
            (IF ts = "" THEN <<>> ELSE <<ColumnRow(t, "TS", ts, NONE, "YES", FALSE)>>)
            \o [i \in 1..n |-> ColumnRow(t, NumericNames[i], NumericTypes[i], NONE, "NO", FALSE)]
            \o (IF txt THEN <<ColumnRow(t, "T1", "VARCHAR", 200, "YES", FALSE),
                              ColumnRow(t, "T2", "TEXT", 2000, "YES", FALSE)>>
                 ELSE <<ColumnRow(t, "T1", "VARCHAR", 199, "YES", FALSE),
                        ColumnRow(t, "X", "", NONE, "YES", FALSE)>>)
        Shapes == {"", "TIMESTAMP_NTZ", "date"} \X {0, 1, 5, Len(NumericNames)} \X BOOLEAN
        Laid(a, b, interleaved) ==
            IF interleaved THEN <<a[1]>> \o b \o Tail(a) ELSE a \o b
    IN  {[NoArg EXCEPT !.fn = "tables",
                       !.columns_data = Laid(Rows("ORDERS", x[1], x[2], x[3]),
                                             Rows("ITEMS", y[1], y[2], y[3]), il)] :
            x \in Shapes, y \in Shapes, il \in BOOLEAN}

\* one candidate, with statistics of an earlier step, a cache with or without
\* an entry for it, and what the database does with the sampling queries
AnalyzeArgs ==
    LET pool == {[Candidate("ORDERS", "DESCRIPTION", FeatLLM, "VARCHAR", 2000, TRUE)
                      EXCEPT !.statistics = DefaultMetadataStatistics],
                 Candidate("ORDERS", "PAYLOAD", FeatExtract, "VARIANT", NONE, FALSE),
                 [Candidate("ORDERS", "", FeatML, "", NONE, FALSE)
                      EXCEPT !.statistics = DefaultMetadataStatistics],
                 [Candidate("ORDERS", "AMOUNT", FeatML, "NUMBER", NONE, FALSE)
                      EXCEPT !.statistics = DefaultMetadataStatistics]}
        files == {NoCache,
                  CachePut(NoCache, <<"ORDERS", "DESCRIPTION">>,
                           CacheEntry("sample", "1000", QueryStatistics("VARCHAR", SparseRow))),
                  CachePut(NoCache, <<"ORDERS", "AMOUNT">>,
                           CacheEntry("metadata_only", "metadata", EmptyStatistics))}
    IN  {[NoArg EXCEPT !.fn = "analyze", !.candidates = <<c>>, !.attempts = a, !.cache = f] :
            c \in pool, a \in [DOMAIN SAMPLE_SIZES -> SampleAttempts], f \in files}

InitFunctions ==
    /\ arg \in MergeArgs \cup SampleArgs \cup BatchArgs \cup QueryArgs \cup ClassifyArgs
                \cup TableArgs \cup AnalyzeArgs
    /\ ret = [called |-> FALSE]
    /\ NothingRunning
    /\ FORCE_REANALYSIS \in (IF arg.fn = "analyze" THEN BOOLEAN ELSE {FALSE})
    /\ RUN_MODE = "append"

CallMerge ==
    /\ arg.fn = "merge"
    /\ ~ret.called
    /\ ret' = [called |-> TRUE,
               merged |-> merge_candidates(arg.existing, arg.new_candidates),
               counts |-> MergeCounts(arg.existing, arg.new_candidates)]
    /\ UNCHANGED <<arg, runvars, all_candidates, top_candidates, cache, confvars>>

CallSample ==
    /\ arg.fn = "sample"
    /\ ~ret.called
    /\ ret' = [called |-> TRUE,
               result |-> run_adaptive_sample(arg.data_type, arg.attempts),
               queries |-> SampleQueriesFrom(arg.attempts, 1),
               events |-> SampleEvents(SampleQueriesFrom(arg.attempts, 1))]
    /\ UNCHANGED <<arg, runvars, all_candidates, top_candidates, cache, confvars>>

\* the three batch loops over one candidate list: analyze_candidates,
\* run_full_scan_analysis (over the candidates that identify_top_candidates
\* lets through) and stage 2B
CallBatch ==
    /\ arg.fn = "batch"
    /\ ~ret.called
    /\ LET top == identify_top_candidates(arg.candidates, BatchMaxLen + 1)
       IN  ret' = [called |-> TRUE,
                   analyze |-> AnalyzeSummary(arg.candidates, arg.cache, FORCE_REANALYSIS,
                                              arg.attempts),
                   full_scan |-> FullScanSummary(top, [n \in DOMAIN top |-> arg.attempts[top[n]]]),
                   metadata |-> MetadataSummary(arg.candidates, OpsLookup)]
    /\ UNCHANGED <<arg, runvars, all_candidates, top_candidates, cache, confvars>>

\* execute_query(conn, query); the statement is carried in arg.data_type
CallExecuteQuery ==
    /\ arg.fn = "query"
    /\ ~ret.called
    /\ ret' = [called |-> TRUE,
               raises |-> execute_query(arg.data_type).raises,
               events |-> execute_query(arg.data_type).events]
    /\ UNCHANGED <<arg, runvars, all_candidates, top_candidates, cache, confvars>>

\* identify_llm_candidates(columns) and identify_variant_candidates(columns)
CallClassify ==
    /\ arg.fn = "classify"
    /\ ~ret.called
    /\ ret' = [called |-> TRUE,
               raises |-> ClassifyRaises(arg.columns_data),
               llm |-> IF ClassifyRaises(arg.columns_data) THEN <<>>
                       ELSE identify_llm_candidates(arg.columns_data),
               reasons |-> IF ClassifyRaises(arg.columns_data) THEN <<>>
                           ELSE [i \in DOMAIN SelectSeq(arg.columns_data, IsLLMColumn) |->
                                    LLMReason(SelectSeq(arg.columns_data, IsLLMColumn)[i])],
               variant |-> identify_variant_candidates(arg.columns_data),
               ml |-> identify_ml_candidates(arg.columns_data),
               search_raises |-> SearchRaises(arg.columns_data)]
    /\ UNCHANGED <<arg, runvars, all_candidates, top_candidates, cache, confvars>>

\* the four classifiers on the columns, analyze_column_data on each ML and
\* Search candidate with a database that would answer every sampling query,
\* and the per-feature lists a later run rebuilds from the saved candidates
CallClassifyTables ==
    /\ arg.fn = "tables"
    /\ ~ret.called
    /\ LET ml == identify_ml_candidates(arg.columns_data)
           search == identify_search_candidates(arg.columns_data)
           answers == [n \in DOMAIN SAMPLE_SIZES |-> Attempt("row", GoodRow, "")]
       IN  ret' = [called |-> TRUE, ml |-> ml, search |-> search,
                   llm |-> identify_llm_candidates(arg.columns_data),
                   variant |-> identify_variant_candidates(arg.columns_data),
                   restored |-> RestoreCandidateLists(ClassifyAll(arg.columns_data)),
                   queries |-> [i \in DOMAIN (ml \o search) |->
                                   AnalyzeQueries((ml \o search)[i], NoCache,
                                                  FORCE_REANALYSIS, answers)]]
    /\ UNCHANGED <<arg, runvars, all_candidates, top_candidates, cache, confvars>>

\* analyze_column_data(conn, candidate, cache)
CallAnalyze ==
    /\ arg.fn = "analyze"
    /\ ~ret.called
    /\ ret' = [called |-> TRUE,
               result |-> analyze_column_data(arg.candidates[1], arg.cache,
                                              FORCE_REANALYSIS, arg.attempts),
               queries |-> AnalyzeQueries(arg.candidates[1], arg.cache,
                                          FORCE_REANALYSIS, arg.attempts)]
    /\ UNCHANGED <<arg, runvars, all_candidates, top_candidates, cache, confvars>>

NextFunctions ==
    \/ CallMerge
    \/ CallSample
    \/ CallBatch
    \/ CallExecuteQuery
    \/ CallClassify
    \/ CallClassifyTables
    \/ CallAnalyze

SpecFunctions == InitFunctions /\ [][NextFunctions]_vars

----------------------------------------------------------------------------
(* The table readiness score of snowflake_ai_readiness_metadata
   (SpecTableScore).  Scores are in hundredths. *)

\* WEIGHT_COMMENTS, WEIGHT_DATA_TYPES, WEIGHT_FRESHNESS, WEIGHT_CLUSTERING,
\* WEIGHT_CONSTRAINTS
WEIGHTS ==
    [comments |-> 25, data_types |-> 20, freshness |-> 25, clustering |-> 15,
     constraints |-> 15]

\* s.strip() is not empty
NotBlank(s) == Strip(Spell(s)) # <<>>

\* an entry of table_lookup; table_lookup.get(table_key, {}) of a table
\* that is not in it reads as NoTableMeta.  last_altered is "none", "invalid"
\* (a text that is no ISO date) or "date", age_days then being
\* (now - last_altered).days
TableMeta(table_comment, last_altered, age_days, clustering_key) ==
    [table_comment |-> table_comment, last_altered |-> last_altered,
     age_days |-> age_days, clustering_key |-> clustering_key]

NoTableMeta == TableMeta("", "none", 0, "")

score_comments(table_meta, columns_meta) ==
    LET table_points == IF NotBlank(table_meta.table_comment) THEN 40 ELSE 0
        commented == Len(SelectSeq(columns_meta, LAMBDA c : NotBlank(c.column_comment)))
        score == IF columns_meta # <<>>
                 THEN RoundDiv((table_points * Len(columns_meta) + 60 * commented) * 100,
                               Len(columns_meta))
                 ELSE table_points * 100
    IN  Min(score, 100 * 100)

score_data_types(columns_meta) ==
    LET Unsupported(c) == \E t \in {"BINARY", "VARBINARY", "GEOGRAPHY", "GEOMETRY"} :
                              BaseType(c.data_type) = Spell(t)
        Semi(c) == /\ ~Unsupported(c)
                   /\ \E t \in {"VARIANT", "OBJECT", "ARRAY"} : BaseType(c.data_type) = Spell(t)
        Supported(c) == ~Unsupported(c) /\ ~Semi(c)
        total == Len(columns_meta)
        supported_count == Len(SelectSeq(columns_meta, Supported))
        partial_count == Len(SelectSeq(columns_meta, Semi))
    IN  IF columns_meta = <<>> THEN 0
        ELSE Min(RoundDiv((2 * supported_count + partial_count) * 50 * 100, total), 100 * 100)

score_freshness(table_meta) ==
    IF table_meta.last_altered # "date" THEN 0
    ELSE IF table_meta.age_days <= 7 THEN 100 * 100
    ELSE IF table_meta.age_days <= 30 THEN 80 * 100
    ELSE IF table_meta.age_days <= 90 THEN 50 * 100
    ELSE IF table_meta.age_days <= 180 THEN 25 * 100
    ELSE 10 * 100

\* storage_meta: found = FALSE for a table with no storage row
score_clustering(table_meta, storage_meta) ==
    LET clustered == NotBlank(table_meta.clustering_key)
        large == storage_meta.found /\ storage_meta.active_bytes > 1073741824
        score == (IF clustered THEN 70 ELSE 0)
                 + (IF large /\ clustered THEN 30 ELSE IF large THEN 10 ELSE 0)
    IN  Min(score * 100, 100 * 100)

score_constraints(constraints_meta) ==
    LET Found(t) == \E i \in DOMAIN constraints_meta :
                        Upper(Spell(constraints_meta[i])) = Spell(t)
    IN  Min(((IF Found("PRIMARY KEY") THEN 50 ELSE 0) + (IF Found("FOREIGN KEY") THEN 30 ELSE 0)
             + (IF Found("UNIQUE") THEN 20 ELSE 0)) * 100, 100 * 100)

\* the dimension scores of compute_table_readiness_score
DimensionScores(table_meta, columns_meta, constraints_meta, storage_meta) ==
    [comments |-> score_comments(table_meta, columns_meta),
     data_types |-> score_data_types(columns_meta),
     freshness |-> score_freshness(table_meta),
     clustering |-> score_clustering(table_meta, storage_meta),
     constraints |-> score_constraints(constraints_meta)]

\* the weighted total, in ten-thousandths
WeightedSum(dimension_scores) ==
    dimension_scores.comments * WEIGHTS.comments
    + dimension_scores.data_types * WEIGHTS.data_types
    + dimension_scores.freshness * WEIGHTS.freshness
    + dimension_scores.clustering * WEIGHTS.clustering
    + dimension_scores.constraints * WEIGHTS.constraints

\* compute_table_readiness_score that cuts the total off after two decimals
TableReadinessTruncated(table_meta, columns_meta, constraints_meta, storage_meta) ==
    LET dimension_scores ==
            DimensionScores(table_meta, columns_meta, constraints_meta, storage_meta)
    IN  [total_score |-> WeightedSum(dimension_scores) \div 100,
         dimension_scores |-> dimension_scores]

\* 'total_score': round(total, 2)
compute_table_readiness_score(table_meta, columns_meta, constraints_meta, storage_meta) ==
    LET dimension_scores ==
            DimensionScores(table_meta, columns_meta, constraints_meta, storage_meta)
    IN  [total_score |-> RoundDiv(WeightedSum(dimension_scores), 100),
         dimension_scores |-> dimension_scores]

TableMaxCols == 3

\* tables with and without a metadata row, a storage row, constraints and
\* columns
TableScoreArgs ==
    LET metas == {NoTableMeta}
                 \cup {TableMeta(c, l[1], l[2], k) :
                          c \in {"", "  ", "Orders"},
                          l \in {<<"none", 0>>, <<"invalid", 0>>, <<"date", 0 - 1>>,
                                 <<"date", 7>>, <<"date", 30>>, <<"date", 90>>,
                                 <<"date", 181>>},
                          k \in {"", "LINEAR(ID)"}}
        storages == {[found |-> FALSE, active_bytes |-> 0],
                     [found |-> TRUE, active_bytes |-> 1073741824],
                     [found |-> TRUE, active_bytes |-> 1073741825]}
        constraints == {<<>>, <<"unique", "FOREIGN KEY">>,
                        <<"PRIMARY KEY", "FOREIGN KEY", "UNIQUE", "PRIMARY KEY">>}
        cols == {[data_type |-> "VARCHAR", column_comment |-> "Orders"],
                 [data_type |-> "VARIANT", column_comment |-> ""],
                 [data_type |-> "BINARY(8)", column_comment |-> "  "]}
    IN  [fn : {"table_score"}, table_meta : metas, storage_meta : storages,
         constraints_meta : constraints, columns_meta : SeqsUpTo(cols, TableMaxCols)]

InitTableScore ==
    /\ arg \in TableScoreArgs
    /\ ret = [called |-> FALSE]
    /\ NothingRunning
    /\ FORCE_REANALYSIS = FALSE
    /\ RUN_MODE = "append"

CallTableScore ==
    /\ ~ret.called
    /\ ret' = [called |-> TRUE,
               score |-> compute_table_readiness_score(arg.table_meta, arg.columns_meta,
                                                       arg.constraints_meta, arg.storage_meta)]
    /\ UNCHANGED <<arg, runvars, all_candidates, top_candidates, cache, confvars>>

NextTableScore == CallTableScore

SpecTableScore == InitTableScore /\ [][NextTableScore]_vars

----------------------------------------------------------------------------
(* Properties of is_confirmed_candidate (SpecConfirm) *)

ConfirmCalled == "confirm" \in ret.called

IsTextFeature(c) == c.ai_feature \in {FeatLLM, FeatSearch}

\* What the candidate's statistics say, read without Python truthiness:
\* the top-level value when the key is there, else the nested profile value,
\* else NONE (the statistic is missing).
GivenNullPct ==
    LET st == arg.candidate.statistics
    IN  IF st.kind = "dict" /\ st.null_percentage # NONE THEN st.null_percentage
        ELSE IF arg.profile.present THEN arg.profile.sparsity_null_percentage ELSE NONE

GivenAvgLen ==
    LET st == arg.candidate.statistics
    IN  IF st.kind = "dict" /\ st.avg_length # NONE THEN st.avg_length
        ELSE IF arg.profile.present THEN arg.profile.content_avg_length ELSE NONE

GivenReadiness ==
    IF arg.candidate.scores.present THEN arg.candidate.scores.data_readiness ELSE NONE

GivenNL == IF arg.profile.present THEN arg.profile.is_natural_language ELSE "None"
GivenJson == IF arg.profile.present THEN arg.profile.is_valid_structure ELSE "None"

AllChecksPass ==
    /\ GivenNullPct <= CONFIRM_MAX_SPARSITY
    /\ IsTextFeature(arg.candidate) =>
          GivenAvgLen >= CONFIRM_MIN_AVG_TEXT_LENGTH /\ GivenNL # "False"
    /\ arg.candidate.ai_feature = FeatExtract => GivenJson # "False"
    /\ GivenReadiness >= CONFIRM_MIN_DATA_READINESS

\* C1: for a candidate that carries the statistics its checks need, the
\* verdict of is_confirmed_candidate is True exactly when every applicable
\* check passes (null% <= 50; LLM/Search: average length >= 30 and the
\* natural-language flag not False; Extract: JSON flag not False;
\* data_readiness >= 3.5).
C1_VerdictIsConjunction ==
    (/\ ConfirmCalled
     /\ GivenNullPct # NONE
     /\ IsTextFeature(arg.candidate) => GivenAvgLen # NONE
     /\ GivenReadiness # NONE)
    => (ret.confirm.is_confirmed <=> AllChecksPass)

SparsityFailed == Head(ret.confirm.reasons).text = "High sparsity"

\* C2: for statistics that carry null_percentage p (0..100), the sparsity
\* check fails exactly when p > CONFIRM_MAX_SPARSITY; p above it leaves the
\* candidate unconfirmed, p at or below it confirms the candidate when the
\* other checks pass.
C2_SparsityBoundary ==
    LET p == arg.candidate.statistics.null_percentage
    IN  (ConfirmCalled /\ arg.candidate.statistics.kind = "dict" /\ p # NONE)
        => /\ SparsityFailed <=> p > CONFIRM_MAX_SPARSITY
           /\ p > CONFIRM_MAX_SPARSITY => ~ret.confirm.is_confirmed

ReasonTexts == {ret.confirm.reasons[i].text : i \in DOMAIN ret.confirm.reasons}

\* C3: a missing statistic (no null_percentage; no avg_length for an LLM or
\* Search candidate; no data_readiness) makes its check fail with a reason,
\* so the candidate is not confirmed.
C3_MissingStatisticFails ==
    ConfirmCalled =>
        /\ GivenNullPct = NONE =>
              ~ret.confirm.is_confirmed /\ "High sparsity" \in ReasonTexts
        /\ (IsTextFeature(arg.candidate) /\ GivenAvgLen = NONE) =>
              ~ret.confirm.is_confirmed /\ "Short content" \in ReasonTexts
        /\ GivenReadiness = NONE =>
              ~ret.confirm.is_confirmed /\ "Low data readiness score" \in ReasonTexts

\* The check a reason string belongs to
CheckOf(text) ==
    CASE text \in {"High sparsity", "Good completeness"} -> "sparsity"
      [] text \in {"Short content", "Substantial content"} -> "length"
      [] text \in {"Content appears to be codes/structured, not natural language",
                   "Natural language content detected"} -> "language"
      [] text \in {"Invalid JSON structure detected",
                   "Valid JSON structure confirmed"} -> "structure"
      [] text \in {"Low data readiness score", "Good data readiness"} -> "readiness"

ReasonChecks == [i \in DOMAIN ret.confirm.reasons |-> CheckOf(ret.confirm.reasons[i].text)]

\* "content quality / natural language" is one check of the claim
Coarse(check) == IF check \in {"length", "language"} THEN "content" ELSE check

Opt(cond, check) == IF cond THEN <<check>> ELSE <<>>

\* The average length is usable when the top-level value is neither missing
\* nor zero, or else the nested profile value is neither missing nor zero.
UsableAvgLen ==
    LET st == arg.candidate.statistics
    IN  \/ st.kind = "dict" /\ st.avg_length \notin {NONE, 0}
        \/ arg.profile.present /\ arg.profile.content_avg_length \notin {NONE, 0}

----------------------------------------------------------------------------
(* Properties of the data-readiness scorers (SpecReadiness) *)

ScoredStats == arg.candidate.statistics

StatedNullPoints(p) ==
    IF p <= 1000 THEN 200 ELSE IF p <= 3000 THEN 150 ELSE IF p <= 5000 THEN 100
    ELSE IF p <= 7000 THEN 50 ELSE 0

StatedLengthPoints(a) ==
    IF a = NONE THEN 0
    ELSE IF a >= 20000 THEN 200 ELSE IF a >= 10000 THEN 150 ELSE IF a >= 5000 THEN 100
    ELSE IF a > 0 THEN 50 ELSE 0

StatedQualityPoints(st) ==
    LET n == (IF st.has_comment THEN 1 ELSE 0) + (IF st.is_nullable = "NO" THEN 1 ELSE 0)
    IN  50 * n

\* C6: for statistics that carry null_percentage the metadata scorer returns
\* null-rate points (2/1.5/1/0.5/0 at <=10/<=30/<=50/<=70/above) plus length
\* points (2/1.5/1/0.5/0 at >=200/>=100/>=50/>0/otherwise) plus 1 for comment
\* and NOT NULL together, 0.5 for one of them; the result is within 0..5.
C6_MetadataScoreIsSum ==
    "metadata" \in ret.called =>
        /\ ret.metadata \in 0..500
        /\ (ScoredStats.kind = "dict" /\ ScoredStats.null_percentage # NONE) =>
              ret.metadata = StatedNullPoints(ScoredStats.null_percentage)
                             + StatedLengthPoints(ScoredStats.avg_length)
                             + StatedQualityPoints(ScoredStats)

\* Scenario A (null 5 %, average length 250, comment, NOT NULL) scores 5.0
C6_Witness ==
    /\ "metadata" \in ret.called
    /\ ScoredStats.kind = "dict"
    /\ ScoredStats.null_percentage = 500
    /\ ScoredStats.avg_length = 25000
    /\ ScoredStats.has_comment
    /\ ScoredStats.is_nullable = "NO"
    /\ ret.metadata = 500

BothScorersCalled == {"sample", "metadata"} \subseteq ret.called

StatedEfficiencyPoints ==
    LET m == ScoredStats.max_length
        d == arg.candidate.max_length
    IN  IF m = NONE \/ d = NONE \/ d <= 0 THEN 0
        ELSE IF 2 * m > d THEN 100
        ELSE IF 4 * m >= d THEN 50
        ELSE 0

----------------------------------------------------------------------------
(* Scores and the cache under the analysis operations (SpecOps) *)

MaxTotalScore == 20 * 100

\* C5: after any sequence of scoring operations (score_candidate, the
\* rescoring of stage 2E, of analyze_candidates and of
\* run_full_scan_analysis), every candidate that has a scores record has
\* total_score equal to the sum of its four dimension scores, and that
\* total is between 0 and 20.
C5_TotalIsSumOfScores ==
    \A i \in DOMAIN all_candidates :
        all_candidates[i].scores.present =>
            /\ all_candidates[i].total_score = SumScores(all_candidates[i].scores)
            /\ all_candidates[i].total_score >= 0
            /\ all_candidates[i].total_score <= MaxTotalScore

\* a candidate scored by score_candidate and then rescored from a full scan
C5_Witness ==
    \E i \in DOMAIN all_candidates :
        /\ all_candidates[i].scores.present
        /\ all_candidates[i].sample_size = "full"
        /\ all_candidates[i].scores.data_readiness =
               enhance_data_readiness_score(all_candidates[i], all_candidates[i].statistics)
        /\ all_candidates[i].scores.data_readiness \notin {300, 400, 500}

\* full_scan > sample > metadata_only
Strength(analysis_type) ==
    CASE analysis_type = "full_scan" -> 3
      [] analysis_type = "sample" -> 2
      [] analysis_type = "metadata_only" -> 1
      [] OTHER -> 0

\* C10: with force_reanalysis off, no analysis step replaces the cache
\* entry of a key by an entry that is not stronger (full_scan > sample >
\* metadata_only): an entry at least as strong as what the step produces
\* stays as it is, so a full_scan or sample entry is never replaced by a
\* metadata_only one.
C10_StrongerEntryKept ==
    [][~FORCE_REANALYSIS =>
          \A k \in DOMAIN cache :
              /\ k \in DOMAIN cache'
              /\ cache'[k] # cache[k] =>
                     Strength(cache'[k].analysis_type) > Strength(cache[k].analysis_type)]_vars

----------------------------------------------------------------------------
(* The order of scoring in run_agent (Spec) *)

\* stage 2E of this run is over and confirmation (stage 5B) has not acted
RescoredNotYetConfirmed ==
    /\ should_run_stage("2E", start_stage)
    /\ pc \in {"2F", "3", "4", "5", "5B"}

\* the candidates stage 2E has rescored in this run
RescoredIn2E ==
    {top_candidates[n] : n \in {m \in DOMAIN top_candidates :
                                   all_candidates[top_candidates[m]].statistics.kind = "dict"}}

\* C9: in run_agent, once the statistics-based rescoring (stage 2E) has set
\* a candidate's data_readiness, no later stage replaces it before
\* confirmation is evaluated: up to stage 5B the candidate still carries the
\* data_readiness computed from its statistics.
C9_RescoredReadinessReachesConfirmation ==
    RescoredNotYetConfirmed =>
        \A i \in RescoredIn2E :
            /\ all_candidates[i].scores.present
            /\ all_candidates[i].scores.data_readiness =
                   enhance_data_readiness_score_metadata(all_candidates[i],
                                                         all_candidates[i].statistics)

----------------------------------------------------------------------------
(* Properties of merge_candidates (SpecFunctions) *)

MergeCalled == arg.fn = "merge" /\ ret.called

\* the positions of the new list that carry a key seen neither in the
\* existing list nor earlier in the new list
FirstSeen(existing, new_candidates) ==
    {i \in DOMAIN new_candidates :
        /\ \A j \in DOMAIN existing : CacheKey(existing[j]) # CacheKey(new_candidates[i])
        /\ \A j \in 1..(i - 1) : CacheKey(new_candidates[j]) # CacheKey(new_candidates[i])}

\* C11: merge_candidates keeps every existing candidate unchanged and in
\* place, appends in input order exactly the new candidates whose key is seen
\* for the first time, and drops the others; added + already existed is the
\* length of the new list and the result is as long as the existing list plus
\* the added count.
C11_MergeKeepsExistingAppendsFirstSeen ==
    MergeCalled =>
        LET existing == arg.existing
            new_candidates == arg.new_candidates
            merged == ret.merged
            first == FirstSeen(existing, new_candidates)
        IN  /\ Len(merged) = Len(existing) + Cardinality(first)
            /\ \A j \in DOMAIN existing : merged[j] = existing[j]
            /\ \A i \in first :
                   merged[Len(existing) + Cardinality({k \in first : k <= i})]
                       = new_candidates[i]
            /\ ret.counts.added_count = Cardinality(first)
            /\ ret.counts.added_count + ret.counts.updated_count = Len(new_candidates)
            /\ Len(merged) = Len(existing) + ret.counts.added_count

\* a merge that added one candidate, met an existing key with a different
\* dict, and dropped a duplicate inside the new list
C11_Witness ==
    /\ MergeCalled
    /\ ret.counts.added_count = 1
    /\ ret.counts.updated_count = 2
    /\ \E j \in DOMAIN arg.existing, i \in DOMAIN arg.new_candidates :
           /\ CacheKey(arg.existing[j]) = CacheKey(arg.new_candidates[i])
           /\ arg.existing[j] # arg.new_candidates[i]
    /\ \E i, k \in DOMAIN arg.new_candidates :
           /\ i < k
           /\ i \in FirstSeen(arg.existing, arg.new_candidates)
           /\ CacheKey(arg.new_candidates[i]) = CacheKey(arg.new_candidates[k])
           /\ arg.new_candidates[i] # arg.new_candidates[k]

----------------------------------------------------------------------------
(* Properties of run_agent in fresh mode (Spec) *)

\* a run in fresh mode that starts at the first stage
FreshFullRun == RUN_MODE = "fresh" /\ pc # "idle" /\ start_stage \in {"", "1"}

\* the candidate dicts that stage 2B of this run analysed from metadata, and
\* so the cache keys this run wrote
WrittenThisRun ==
    {CacheKey(all_candidates[i]) :
        i \in {j \in DOMAIN all_candidates : all_candidates[j].sample_size = "metadata"}}

\* C12: after a run in fresh mode the persisted outputs hold only what this
\* run produced: once stage 5B has saved the candidate list it is the list of
\* this run's classification with nothing merged in, and once stage 2C or 2E
\* has saved the cache every saved entry was written by this run.
C12_FreshRunSupersedesOutputs ==
    FreshFullRun =>
        /\ pc = "6" =>
              /\ disk.candidates = all_candidates
              /\ Len(disk.candidates) = Len(ClassifyAll(columns))
              /\ \A i \in DOMAIN disk.candidates :
                     CacheKey(disk.candidates[i]) = CacheKey(ClassifyAll(columns)[i])
        /\ pc \in {"2D", "2F"} =>
              \A k \in DOMAIN disk.cache : k \in WrittenThisRun

----------------------------------------------------------------------------
(* Properties of staged restart (Spec) *)

\* C13: at every stage boundary of a run, a run restarted with --start-stage
\* set to the stage about to begin would observe the candidates (with their
\* statistics and scores) and the cache exactly as they are in memory now:
\* what earlier stages did to them is on disk in the form the restart reads.
C13_RestartObservesStoppedRun ==
    pc \notin {"idle", "1"} =>
        /\ STAGE_ORDER(pc) > STAGE_ORDER("2") =>
               load_existing_candidates(disk) = all_candidates
        /\ STAGE_ORDER(pc) > STAGE_ORDER("2A") =>
               load_analysis_cache(disk, FORCE_REANALYSIS) = cache

\* the stage names in either letter case, and a name that is no stage
StageSpellings ==
    {VALID_STAGES[i] : i \in DOMAIN VALID_STAGES}
        \cup {"2a", "2b", "2c", "2d", "2e", "2f", "5b", "7"}

\* the place of a stage name in the order 1, 2, 2A, ..., 6, whatever its case
\* (0 if it is no stage); the order runs from 1 to 13
Place(stage) ==
    CASE stage = "1" -> 1
      [] stage = "2" -> 2
      [] stage \in {"2A", "2a"} -> 3
      [] stage \in {"2B", "2b"} -> 4
      [] stage \in {"2C", "2c"} -> 5
      [] stage \in {"2D", "2d"} -> 6
      [] stage \in {"2E", "2e"} -> 7
      [] stage \in {"2F", "2f"} -> 8
      [] stage = "3" -> 9
      [] stage = "4" -> 10
      [] stage = "5" -> 11
      [] stage \in {"5B", "5b"} -> 12
      [] stage = "6" -> 13
      [] OTHER -> 0

\* C14: run_agent goes through the stages in the order 1, 2, 2A, ..., 6, each
\* once, and from every stage on to the next one until stage 6 is done; a
\* stage is executed exactly if it is at or after --start-stage, compared
\* without regard to letter case, and with no start stage every stage is.
C14_StagesRunInOrderFromStart ==
    [][/\ pc # "idle" =>
              /\ Place(pc) \in 1..13
              /\ pc' = IF Place(pc) = 13 THEN "idle" ELSE VALID_STAGES[Place(pc) + 1]
              /\ start_stage' = IF Place(pc) = 13 THEN "" ELSE start_stage
       /\ pc = "idle" => pc' = "1"
       /\ pc # "idle" =>
              \A current_stage \in {c \in StageSpellings : Place(c) = Place(pc)} :
                  /\ start_stage = "" => should_run_stage(current_stage, start_stage)
                  /\ \A start \in {t \in StageSpellings : Place(t) = Place(start_stage)} :
                         should_run_stage(current_stage, start)
                             <=> Place(pc) >= Place(start_stage)]_vars

----------------------------------------------------------------------------
(* Properties of run_adaptive_sample (SpecFunctions) *)

SampleCalled == arg.fn = "sample" /\ ret.called

\* C15: run_adaptive_sample sends its queries for the sizes of SAMPLE_SIZES in
\* list order, a size only after every earlier size has failed; it stops at
\* the first size that gives a row and returns that size; it never sends more
\* queries than there are sizes.
C15_LadderIsSequential ==
    SampleCalled =>
        LET n == Len(ret.queries)
        IN  /\ n \in 1..Len(SAMPLE_SIZES)
            /\ \A i \in 1..n : ret.queries[i] = SAMPLE_SIZES[i]
            /\ \A i \in 1..(n - 1) : arg.attempts[i].kind # "row"
            /\ ret.result.success <=> arg.attempts[n].kind = "row"
            /\ ret.result.success => ret.result.sample_size = SAMPLE_SIZES[n]
            /\ (\E i \in DOMAIN SAMPLE_SIZES : arg.attempts[i].kind = "row")
                   => ret.result.success

\* the ladder fell through two failures of different kinds and stopped at the
\* third size, with a size that would also have given a row never reached
C15_Witness ==
    /\ SampleCalled
    /\ arg.attempts[1].kind = "raise"
    /\ arg.attempts[2].kind = "norow"
    /\ arg.attempts[3].kind = "row"
    /\ ret.result.success
    /\ ret.result.sample_size = "100"
    /\ ret.queries = SAMPLE_SIZES

\* C16: when the query fails at every size, by raising or by returning no
\* row, run_adaptive_sample returns success = False, no statistics and no
\* sample size, and its error is the message of the last attempt that gave
\* one.
C16_AllFailedReturnsLastError ==
    (SampleCalled /\ \A i \in DOMAIN SAMPLE_SIZES : arg.attempts[i].kind # "row") =>
        LET raised == {i \in DOMAIN SAMPLE_SIZES : arg.attempts[i].kind = "raise"}
        IN  /\ ~ret.result.success
            /\ ret.result.statistics = NoStatistics
            /\ ret.result.sample_size = "None"
            /\ raised # {} =>
                   ret.result.error_msg =
                       arg.attempts[CHOOSE i \in raised : \A j \in raised : j <= i].error

----------------------------------------------------------------------------
(* Properties of the batch loops (SpecFunctions) *)

\* C17: each batch loop goes through its whole candidate list whatever
\* happens to single candidates, its end-of-batch summary is printed for any
\* list, the empty one included, and the counts it reports (succeeded, cache
\* hits, skipped) add up to the number of candidates it processed.
C17_BatchCompletesAndCountsAddUp ==
    (arg.fn = "batch" /\ ret.called) =>
        /\ ret.analyze.summary = "printed"
        /\ ret.analyze.cached_hits + ret.analyze.analyzed_count + ret.analyze.skipped_count
               = ret.analyze.processed
        /\ ret.full_scan.summary = "printed"
        /\ ret.full_scan.success_count + ret.full_scan.skipped_count
               = ret.full_scan.processed
        /\ ret.metadata.summary = "printed"
        /\ ret.metadata.analyzed_count + ret.metadata.skipped_count
               = ret.metadata.processed

----------------------------------------------------------------------------
(* Properties of the statements sent on the connection (SpecFunctions) *)

\* the statement begins, after strip() and upper(), with SELECT
IsSelect(statement) ==
    LET letters == Upper(Strip(Spell(statement)))
    IN  Len(letters) >= 6 /\ SubSeq(letters, 1, 6) = <<"S", "E", "L", "E", "C", "T">>

\* C18: every statement sent on the connection is a SELECT and has been
\* entered in the audit log before it is sent; execute_query rejects any
\* other statement with an error, sending nothing and logging nothing; and
\* this holds for every function that uses the connection, run_adaptive_sample
\* included.
C18_OnlyAuditedSelectsAreSent ==
    (arg.fn \in {"query", "sample"} /\ ret.called) =>
        /\ \A i \in DOMAIN ret.events :
               ret.events[i].kind = "send" =>
                   /\ IsSelect(ret.events[i].statement)
                   /\ \E j \in 1..(i - 1) :
                          ret.events[j] = [kind |-> "audit", statement |-> ret.events[i].statement]
        /\ arg.fn = "query" =>
               /\ ret.raises <=> ~IsSelect(arg.data_type)
               /\ ret.raises => ret.events = <<>>

----------------------------------------------------------------------------
(* Properties of the column classifiers (SpecFunctions) *)

ClassifyCalled == arg.fn = "classify" /\ ret.called

\* the declared type is textual / semi-structured, whatever its letter case
TextualType(row) ==
    \E t \in {"VARCHAR", "TEXT", "STRING", "CHAR"} :
        IsSubstring(Spell(t), Upper(Spell(row.data_type)))

SemiStructuredType(row) == Upper(Spell(row.data_type)) \in {Spell("VARIANT"), Spell("OBJECT"), Spell("ARRAY")}

LongDeclared(row) == row.max_len # NONE /\ row.max_len >= 500

IndicatorInName(row) ==
    \E w \in TextIndicators : IsSubstring(Spell(w), Upper(Spell(row.column_name)))

\* the rows the LLM classifier is to flag, by position
LLMExpected(columns_data) ==
    {i \in DOMAIN columns_data :
        TextualType(columns_data[i])
        /\ (LongDeclared(columns_data[i]) \/ IndicatorInName(columns_data[i]))}

\* C19: identify_llm_candidates emits one candidate, in input order, for
\* exactly the rows whose type is textual and whose declared max length is at
\* least 500 or whose name contains an indicator word; the reason says 'long
\* text' when the length triggered and 'semantic name' when only the name did.
C19_LLMClassifierRule ==
    ClassifyCalled =>
        LET columns_data == arg.columns_data
            expected == LLMExpected(columns_data)
            Nth(i) == Cardinality({k \in expected : k <= i})
        IN  /\ ~ret.raises
            /\ Len(ret.llm) = Cardinality(expected)
            /\ \A i \in expected :
                   /\ ret.llm[Nth(i)].column = columns_data[i].column_name
                   /\ ret.llm[Nth(i)].data_type = columns_data[i].data_type
                   /\ ret.llm[Nth(i)].ai_feature = FeatLLM
                   /\ ret.reasons[Nth(i)] = IF LongDeclared(columns_data[i])
                                            THEN "long text" ELSE "semantic name"

\* C20: no column is emitted by both the LLM and the Extract classifier: a
\* column of type VARIANT, OBJECT or ARRAY in any letter case is never an LLM
\* candidate, and a column of a textual type is never an Extract candidate.
C20_LLMAndExtractAreDisjoint ==
    ClassifyCalled =>
        /\ \A i \in DOMAIN ret.llm, j \in DOMAIN ret.variant :
               ret.llm[i].column # ret.variant[j].column
               \/ ret.llm[i].data_type # ret.variant[j].data_type
        /\ \A i \in DOMAIN ret.llm :
               \A k \in DOMAIN arg.columns_data :
                   (arg.columns_data[k].column_name = ret.llm[i].column
                    /\ arg.columns_data[k].data_type = ret.llm[i].data_type)
                       => ~SemiStructuredType(arg.columns_data[k])
        /\ \A j \in DOMAIN ret.variant :
               \A k \in DOMAIN arg.columns_data :
                   (arg.columns_data[k].column_name = ret.variant[j].column
                    /\ arg.columns_data[k].data_type = ret.variant[j].data_type)
                       => ~TextualType(arg.columns_data[k])

\* both classifiers emitted: a lower-case variant column with an indicator
\* name went to Extract only, a VARCHAR(1000) column to LLM only
C20_Witness ==
    /\ ClassifyCalled
    /\ Len(ret.llm) = 1 /\ ret.llm[1].data_type = "VARCHAR(1000)"
    /\ Len(ret.variant) = 1 /\ ret.variant[1].data_type = "variant"
    /\ ret.variant[1].column = "DESCRIPTION"

----------------------------------------------------------------------------
(* Properties of the table-level classifiers (SpecFunctions) *)

TablesCalled == arg.fn = "tables" /\ ret.called

TypeContains(row, words) ==
    \E w \in words : IsSubstring(Spell(w), Upper(Spell(row.data_type)))

\* the rows of table t, in input order
RowsOf(columns_data, t) == SelectSeq(columns_data, LAMBDA r : r.table = t)

NumericRow(r) == TypeContains(r, {"NUMBER", "FLOAT", "DECIMAL", "INTEGER", "DOUBLE"})

\* the tables that have a timestamp or date column and a numeric column
MLExpected(columns_data) ==
    {t \in {columns_data[i].table : i \in DOMAIN columns_data} :
        /\ \E i \in DOMAIN columns_data :
               columns_data[i].table = t /\ TypeContains(columns_data[i], {"TIMESTAMP", "DATE"})
        /\ \E i \in DOMAIN columns_data :
               columns_data[i].table = t /\ NumericRow(columns_data[i])}

\* C21: identify_ml_candidates emits exactly one candidate for each table that
\* has a TIMESTAMP or DATE column and a numeric column and none for any other
\* table; the candidate names the first numeric columns of the table, at most
\* 5, in input order; it has no column identity, and analyze_column_data
\* sends no sampling query for it.
C21_MLClassifierRule ==
    TablesCalled =>
        LET columns_data == arg.columns_data
            expected == MLExpected(columns_data)
        IN  /\ Len(ret.ml) = Cardinality(expected)
            /\ \A t \in expected : \E i \in DOMAIN ret.ml : ret.ml[i].table = t
            /\ \A i \in DOMAIN ret.ml :
                   LET numeric == SelectSeq(RowsOf(columns_data, ret.ml[i].table), NumericRow)
                   IN  /\ ret.ml[i].table \in expected
                       /\ ret.ml[i].ai_feature = FeatML
                       /\ ret.ml[i].column = ""
                       /\ Len(ret.ml[i].evidence) = IF Len(numeric) > 5 THEN 5 ELSE Len(numeric)
                       /\ \A k \in DOMAIN ret.ml[i].evidence :
                              ret.ml[i].evidence[k] = numeric[k].column_name
                       /\ ret.queries[i] = <<>>

\* both tables flagged, one with six numeric columns of which five are named,
\* the rows of the two tables interleaved
C21_Witness ==
    /\ TablesCalled
    /\ Len(ret.ml) = 2
    /\ arg.columns_data[1].table # arg.columns_data[2].table
    /\ \E i \in DOMAIN ret.ml :
           /\ Len(ret.ml[i].evidence) = 5
           /\ Len(SelectSeq(RowsOf(arg.columns_data, ret.ml[i].table), NumericRow)) = 6
    /\ \E i \in DOMAIN arg.columns_data : arg.columns_data[i].data_type = "date"

\* C22: none of the four classifiers raises, whatever the column rows are:
\* rows rebuilt from the inventory CSV, whose declared max length is a text,
\* included.
C22_ClassifiersNeverRaise ==
    ClassifyCalled => ~ret.raises /\ ~ret.search_raises

----------------------------------------------------------------------------
(* Properties of the table readiness score (SpecTableScore) *)

Dimensions == {"comments", "data_types", "freshness", "clustering", "constraints"}

ScoresInRange ==
    /\ \A d \in Dimensions :
           ret.score.dimension_scores[d] >= 0 /\ ret.score.dimension_scores[d] <= 100 * 100
    /\ ret.score.total_score >= 0 /\ ret.score.total_score <= 100 * 100
    /\ WEIGHTS.comments + WEIGHTS.data_types + WEIGHTS.freshness + WEIGHTS.clustering
       + WEIGHTS.constraints = 100

\* C23 as stated: every dimension score and the total are between 0 and 100,
\* the weights sum to 100, and total_score equals the weighted sum of the
\* dimension scores.
C23_TotalIsWeightedSum ==
    ret.called =>
        /\ ScoresInRange
        /\ ret.score.total_score * 100 = WeightedSum(ret.score.dimension_scores)

\* C23, amended: every dimension score and the total are between 0 and 100,
\* the weights sum to 100, and total_score is the weighted sum of the
\* dimension scores rounded to two decimals: it differs from the weighted sum
\* by at most 0.005.
C23_TotalIsRoundedWeightedSum ==
    ret.called =>
        /\ ScoresInRange
        /\ 2 * (ret.score.total_score * 100 - WeightedSum(ret.score.dimension_scores)) <= 100
        /\ 2 * (WeightedSum(ret.score.dimension_scores) - ret.score.total_score * 100) <= 100

\* a table with no metadata row, no constraints and no storage row whose
\* weighted sum has more than two decimals
C23_Witness ==
    /\ ret.called
    /\ arg.table_meta = NoTableMeta
    /\ arg.constraints_meta = <<>>
    /\ ~arg.storage_meta.found
    /\ WeightedSum(ret.score.dimension_scores) % 100 # 0
    /\ ret.score.total_score > 0

----------------------------------------------------------------------------
(* Properties of the top-candidate list in run_agent (Spec) *)

Scorable(i) == all_candidates[i].total_score # NONE /\ HasColumnIdentity(all_candidates[i])

\* C24: whenever the stage-2E rescoring is about to run, the top-candidate
\* list holds the top_n highest-scored candidates that have a total_score and
\* a full column identity, in descending total_score order with equal scores
\* in input order, and no scorable candidate left out has a higher total_score
\* than one in the list; also when stage 2D was skipped by a staged restart.
C24_TopListIsTopN ==
    (pc = "2E" /\ should_run_stage("2E", start_stage)) =>
        LET scorable == {i \in DOMAIN all_candidates : Scorable(i)}
            InTop(i) == \E n \in DOMAIN top_candidates : top_candidates[n] = i
            Score(n) == all_candidates[top_candidates[n]].total_score
        IN  /\ \A n \in DOMAIN top_candidates : top_candidates[n] \in scorable
            /\ Len(top_candidates) = Min(TOP_CANDIDATES_FULL_SCAN, Cardinality(scorable))
            /\ \A n, k \in DOMAIN top_candidates :
                   n < k => \/ Score(n) > Score(k)
                            \/ Score(n) = Score(k) /\ top_candidates[n] < top_candidates[k]
            /\ \A i \in scorable :
                   ~InTop(i) => \A n \in DOMAIN top_candidates :
                                    all_candidates[i].total_score <= Score(n)

----------------------------------------------------------------------------
(* Properties of analyze_column_data (SpecFunctions) *)

AnalyzeCalled == arg.fn = "analyze" /\ ret.called

\* some sampling query of the ladder is answered with a row before the ladder
\* gives up
SamplingSucceeds ==
    \E n \in DOMAIN SAMPLE_SIZES :
        /\ arg.attempts[n].kind = "row"
        /\ \A k \in 1..(n - 1) : arg.attempts[k].kind # "row"
        /\ \A k \in 1..(n - 1) : arg.attempts[k].kind = "raise" => k < Len(SAMPLE_SIZES)

\* C25: analyze_column_data adds or changes a cache entry only when sampling
\* succeeded.  On a cache hit with force_reanalysis off it sends no query,
\* leaves the cache unchanged and attaches the cached statistics; when
\* sampling fails it returns an error and leaves the cache and the
\* candidate's statistics unchanged; for a candidate that is not LLM or
\* Extract it leaves the cache unchanged.  A key that the call put into the
\* cache is the key of the candidate, whose analysis succeeded.
C25_CacheChangesOnlyOnSuccess ==
    AnalyzeCalled =>
        LET candidate == arg.candidates[1]
            key == CacheKey(candidate)
            analyzable == HasColumnIdentity(candidate)
                          /\ candidate.ai_feature \in {FeatLLM, FeatExtract}
            hit == key \in DOMAIN arg.cache /\ ~FORCE_REANALYSIS
            r == ret.result
        IN  /\ r.cache # arg.cache =>
                   /\ analyzable /\ ~hit /\ SamplingSucceeds
                   /\ r.success /\ ~r.from_cache
            /\ (analyzable /\ hit) =>
                   /\ ret.queries = <<>>
                   /\ r.cache = arg.cache
                   /\ r.success /\ r.from_cache
                   /\ r.candidate.statistics = arg.cache[key].statistics
            /\ (analyzable /\ ~hit /\ ~SamplingSucceeds) =>
                   /\ ~r.success
                   /\ r.cache = arg.cache
                   /\ r.candidate.statistics = candidate.statistics
            /\ ~analyzable => r.cache = arg.cache
            /\ \A k \in DOMAIN r.cache :
                   (k \notin DOMAIN arg.cache \/ r.cache[k] # arg.cache[k]) =>
                       k = key /\ r.success /\ r.cache[k].statistics = r.candidate.statistics

\* a forced re-analysis of a cached column whose sampling fails: the entry
\* stays as it was
C25_Witness ==
    /\ AnalyzeCalled
    /\ FORCE_REANALYSIS
    /\ CacheKey(arg.candidates[1]) \in DOMAIN arg.cache
    /\ arg.candidates[1].ai_feature = FeatLLM
    /\ ~ret.result.success
    /\ ret.queries # <<>>
    /\ ret.result.cache = arg.cache

----------------------------------------------------------------------------
(* Properties of the confirmation in run_agent (Spec) *)

\* some text profile of the column says its average length is above 100
LongTextProfile(cand, profiles) ==
    \E n \in DOMAIN profiles :
        /\ HasColumnIdentity(cand)
        /\ profiles[n].table = cand.table /\ profiles[n].column = cand.column
        /\ profiles[n].avg_length > 100 * 100

\* C26: under the default thresholds is_confirmed_candidate confirms no
\* candidate whose data_readiness is 3, whatever its statistics and profile;
\* in run_agent stage 5 gives a data_readiness above 3 only to a candidate
\* with a text profile whose average length is above 100, and every candidate
\* that is marked confirmed when stage 5B is over has a data_readiness of 4
\* or 5.
C26_DefaultReadinessNeverConfirmed ==
    [][/\ (pc = "idle" /\ disk = NoDisk) =>
              \A c \in ConfirmCandidates : \A p \in ConfirmProfiles :
                  (c.scores.present /\ c.scores.data_readiness = 300) =>
                      ~is_confirmed_candidate(c, p).is_confirmed
       /\ (pc = "5" /\ should_run_stage("5", start_stage)) =>
              \A i \in DOMAIN all_candidates' :
                  /\ all_candidates'[i].scores.data_readiness \in {300, 400, 500}
                  /\ all_candidates'[i].scores.data_readiness > 300 =>
                         LongTextProfile(all_candidates[i], text_profiles)
       /\ pc' = "6" =>
              \A i \in DOMAIN all_candidates' :
                  all_candidates'[i].is_confirmed = "True" =>
                      /\ all_candidates'[i].scores.present
                      /\ all_candidates'[i].scores.data_readiness \in {400, 500}]_vars

\* after stage 5B one candidate is confirmed and another, with statistics
\* that pass the sparsity check, is not because its data_readiness is 3
C26_Witness ==
    /\ pc = "6"
    /\ \E i \in DOMAIN all_candidates : all_candidates[i].is_confirmed = "True"
    /\ \E i \in DOMAIN all_candidates :
           /\ all_candidates[i].is_confirmed = "False"
           /\ all_candidates[i].scores.data_readiness = 300
           /\ all_candidates[i].statistics.null_percentage # NONE
           /\ all_candidates[i].statistics.null_percentage > 0
           /\ all_candidates[i].statistics.null_percentage <= CONFIRM_MAX_SPARSITY

\* C27: in run_agent a table-level candidate (Cortex ML or Cortex Search /
\* RAG, no column identity) is never marked confirmed: stage 2B gives it
\* statistics without a null_percentage, which the sparsity check of
\* is_confirmed_candidate counts as 100% NULL.
C27_TableLevelNeverConfirmed ==
    [][/\ \A i \in DOMAIN all_candidates' :
              ~HasColumnIdentity(all_candidates'[i]) =>
                  /\ all_candidates'[i].ai_feature \in {FeatML, FeatSearch}
                  /\ all_candidates'[i].is_confirmed # "True"
       /\ (pc = "2B" /\ should_run_stage("2B", start_stage)) =>
              \A i \in DOMAIN all_candidates' :
                  ~HasColumnIdentity(all_candidates'[i]) =>
                      /\ all_candidates'[i].statistics.kind = "dict"
                      /\ all_candidates'[i].statistics.null_percentage = NONE
       /\ (pc = "5B" /\ should_run_stage("5B", start_stage)) =>
              \A i \in DOMAIN all_candidates :
                  ~HasColumnIdentity(all_candidates[i]) =>
                      \E n \in DOMAIN Confirmed(all_candidates[i]).confirmation_reasons :
                          /\ Confirmed(all_candidates[i]).confirmation_reasons[n].text
                                 = "High sparsity"
                          /\ Confirmed(all_candidates[i]).confirmation_reasons[n].value
                                 = 100 * 100]_vars

\* stage 5B has evaluated an ML and a Search candidate
C27_Witness ==
    /\ pc = "6"
    /\ \E i \in DOMAIN all_candidates :
           /\ all_candidates[i].ai_feature = FeatML
           /\ all_candidates[i].is_confirmed = "False"
    /\ \E i \in DOMAIN all_candidates :
           /\ all_candidates[i].ai_feature = FeatSearch
           /\ all_candidates[i].is_confirmed = "False"

\* C28: in a run that starts at stage 1 or stage 2 no candidate has a
\* total_score when stage 2D runs, the top-candidate list it builds is empty,
\* and stage 2E changes no candidate's scores or total_score.
C28_FirstPassRescoresNothing ==
    [][(start_stage \in {"", "1", "2"}) =>
           /\ pc = "2D" =>
                  /\ \A i \in DOMAIN all_candidates : all_candidates[i].total_score = NONE
                  /\ top_candidates' = <<>>
           /\ pc = "2E" =>
                  /\ top_candidates = <<>>
                  /\ DOMAIN all_candidates' = DOMAIN all_candidates
                  /\ \A i \in DOMAIN all_candidates :
                         /\ all_candidates'[i].scores = all_candidates[i].scores
                         /\ all_candidates'[i].total_score = all_candidates[i].total_score]_vars

\* stage 2E is reached in a run from stage 1 with candidates that have
\* statistics, after an earlier run has saved scored candidates
C28_Witness ==
    /\ pc = "2F"
    /\ start_stage \in {"", "1"}
    /\ disk.has_candidates
    /\ \E i \in DOMAIN all_candidates :
           /\ HasColumnIdentity(all_candidates[i])
           /\ all_candidates[i].statistics.kind = "dict"
           /\ all_candidates[i].statistics.null_percentage # NONE
           /\ ~all_candidates[i].scores.present
    /\ top_candidates = <<>>

----------------------------------------------------------------------------
(* Properties of the keys in merge_candidates (SpecFunctions) *)

\* the candidates merge_candidates appended
Appended == SubSeq(ret.merged, Len(arg.existing) + 1, Len(ret.merged))

TableLevel(cand) == cand.column = "" /\ cand.ai_feature \in {FeatML, FeatSearch}

AppendedKeysDistinct ==
    \A i, k \in DOMAIN Appended : i # k => CacheKey(Appended[i]) # CacheKey(Appended[k])

\* C29 as stated: the appended candidates have pairwise distinct keys, and
\* when an ML and a Search candidate of one table are both in the new list,
\* the first of them is in the merged result and no other table-level
\* candidate of that table is.
C29_OnlyFirstTableLevelInResult ==
    MergeCalled =>
        /\ AppendedKeysDistinct
        /\ \A i, k \in DOMAIN arg.new_candidates :
               (/\ i < k
                /\ TableLevel(arg.new_candidates[i]) /\ TableLevel(arg.new_candidates[k])
                /\ arg.new_candidates[i].table = arg.new_candidates[k].table
                /\ arg.new_candidates[i].ai_feature # arg.new_candidates[k].ai_feature
                /\ \A j \in 1..(i - 1) :
                       CacheKey(arg.new_candidates[j]) # CacheKey(arg.new_candidates[i]))
               => /\ \E n \in DOMAIN ret.merged : ret.merged[n] = arg.new_candidates[i]
                  /\ \A n \in DOMAIN ret.merged :
                         CacheKey(ret.merged[n]) = CacheKey(arg.new_candidates[i])
                             => ret.merged[n] = arg.new_candidates[i]

\* C29, amended: the appended candidates have pairwise distinct keys that no
\* existing candidate has; an ML and a Search candidate of one table have the
\* same key, and when both are in the new list the second is never appended
\* and the first is appended exactly when no existing candidate has the key.
\* The existing candidates stay, whatever their keys.
C29_AtMostFirstTableLevelAppended ==
    MergeCalled =>
        /\ AppendedKeysDistinct
        /\ \A i \in DOMAIN Appended : \A j \in DOMAIN arg.existing :
               CacheKey(Appended[i]) # CacheKey(arg.existing[j])
        /\ \A i, k \in DOMAIN arg.new_candidates :
               (/\ i < k
                /\ TableLevel(arg.new_candidates[i]) /\ TableLevel(arg.new_candidates[k])
                /\ arg.new_candidates[i].table = arg.new_candidates[k].table
                /\ arg.new_candidates[i].ai_feature # arg.new_candidates[k].ai_feature
                /\ \A j \in 1..(i - 1) :
                       CacheKey(arg.new_candidates[j]) # CacheKey(arg.new_candidates[i]))
               => /\ CacheKey(arg.new_candidates[i]) = CacheKey(arg.new_candidates[k])
                  /\ \A n \in DOMAIN Appended :
                         CacheKey(Appended[n]) = CacheKey(arg.new_candidates[i])
                             => Appended[n] = arg.new_candidates[i]
                  /\ (\E n \in DOMAIN Appended : Appended[n] = arg.new_candidates[i])
                         <=> \A j \in DOMAIN arg.existing :
                                 CacheKey(arg.existing[j]) # CacheKey(arg.new_candidates[i])

\* the new list holds the ML and then the Search candidate of a table, and
\* the ML candidate alone was appended
C29_Witness ==
    /\ MergeCalled
    /\ \E i, k \in DOMAIN arg.new_candidates :
           /\ i < k
           /\ arg.new_candidates[i].ai_feature = FeatML
           /\ arg.new_candidates[k].ai_feature = FeatSearch
           /\ arg.new_candidates[i].table = arg.new_candidates[k].table
    /\ \E n \in DOMAIN Appended : Appended[n].ai_feature = FeatML
    /\ \A n \in DOMAIN ret.merged : ret.merged[n].ai_feature # FeatSearch
    /\ arg.existing # <<>>

----------------------------------------------------------------------------
(* Properties of the per-feature lists rebuilt on a restart (SpecFunctions) *)

\* C30: the per-feature lists rebuilt from the loaded candidates hold the
\* candidates the classifiers produced: every candidate is in exactly one of
\* the four lists, and the rebuilt ML list holds every candidate that
\* identify_ml_candidates emitted.
C30_RestoredListsMatchClassifiers ==
    TablesCalled =>
        /\ ret.restored.llm_candidates = ret.llm
        /\ ret.restored.variant_candidates = ret.variant
        /\ ret.restored.ml_candidates = ret.ml
        /\ ret.restored.search_candidates = ret.search
        /\ Len(ret.restored.llm_candidates) + Len(ret.restored.variant_candidates)
           + Len(ret.restored.ml_candidates) + Len(ret.restored.search_candidates)
               = Len(ClassifyAll(arg.columns_data))

====
